---- MODULE Spec2Model ----
(***************************************************************************)
(* Model of the multi-tenant Docker MCP server: the error taxonomy         *)
(* (utils/errors.ts), the credential resolver (types/env.ts), the dual     *)
(* backend client (client.ts), the failure envelope (utils/formatters.ts)  *)
(* and the tool handlers (tools/*.ts, index.ts).                           *)
(*                                                                         *)
(* Strings that the code concatenates or slices are sequences of tokens;   *)
(* the Retry-After header is a sequence of characters so that parseInt is  *)
(* computed the way the runtime computes it.                               *)
(***************************************************************************)
EXTENDS Integers, Sequences, FiniteSets, TLC

VARIABLES clients, last

vars == <<clients, last>>

(***************************************************************************)
(* Bounds                                                                  *)
(***************************************************************************)
\* number of concurrent inbound calls in the isolation specification
NumCalls == 2
\* longest Retry-After header value, in characters
MaxHeaderLen == 2
\* largest number of records in an upstream array
MaxItems == 1

(***************************************************************************)
(* JavaScript values                                                       *)
(***************************************************************************)
\* a number, NaN, or undefined
Num(n) == [def |-> TRUE, nan |-> FALSE, val |-> n]
NaN == [def |-> TRUE, nan |-> TRUE, val |-> 0]
Undef == [def |-> FALSE, nan |-> FALSE, val |-> 0]

\* a parsed JSON value: t is "invalid" (the text is not JSON), "null",
\* "array" (of n records) or "object"; an absent or empty string field is ""
JsonVal(t, message, error, token, id, hasResults, n, next) ==
    [t |-> t, message |-> message, error |-> error, token |-> token, id |-> id,
     hasResults |-> hasResults, n |-> n, next |-> next, count |-> Undef]
JInvalid == JsonVal("invalid", "", "", "", "", FALSE, 0, FALSE)
JNull == JsonVal("null", "", "", "", "", FALSE, 0, FALSE)
JArray(n) == JsonVal("array", "", "", "", "", FALSE, n, FALSE)
JObject(message, error, token, id) ==
    JsonVal("object", message, error, token, id, FALSE, 0, FALSE)
\* a Hub page: n results, next (a next-page URL is carried; null and the empty
\* string are FALSE), and the upstream count
JPageOf(n, next, count) ==
    [JsonVal("object", "", "", "", "", TRUE, n, next) EXCEPT !.count = count]
JPage(n, next) == JPageOf(n, next, Num(n))

\* a response body: its text and what JSON.parse makes of it
Body(raw, json) == [raw |-> raw, json |-> json]
EmptyBody == Body("", JInvalid)
TextBody == Body("OK", JInvalid)
NullBody == Body("null", JNull)
MessageBody == Body("{message}", JObject("no such container", "", "", ""))
ErrorBody == Body("{error}", JObject("", "denied", "", ""))
ArrayBody(n) == Body("[..]", JArray(n))
TokenBody(tok) == Body("{token}", JObject("", "", tok, ""))
IdBody == Body("{Id}", JObject("", "", "", "exec1"))
EmptyObjectBody == Body("{}", JObject("", "", "", ""))
PageBody(n, next) == Body("{results}", JPage(n, next))
PageBodyOf(n, next, count) == Body("{results}", JPageOf(n, next, count))

\* a value returned by a client operation
\* a PaginatedResponse: the number of items, count, total, hasMore, nextCursor
PaginatedResponse(items, count, total, hasMore, nextCursor) ==
    [items |-> items, count |-> count, total |-> total, hasMore |-> hasMore,
     nextCursor |-> nextCursor]
NoPage ==
    PaginatedResponse(0, 0, Undef, FALSE, [def |-> FALSE, chars |-> <<>>])

Val(t, raw, json) == [t |-> t, raw |-> raw, json |-> json, page |-> NoPage]
Undefined == Val("undefined", "", JInvalid)
TextVal(raw) == Val("text", raw, JInvalid)
JsonValue(j) == Val("json", "", j)
IsNullish(v) == v.t = "undefined" \/ (v.t = "json" /\ v.json.t = "null")

\* a response header: absent, or a sequence of characters
Absent == [present |-> FALSE, chars |-> <<>>]
Header(chars) == [present |-> TRUE, chars |-> chars]

(***************************************************************************)
(* utils/errors.ts                                                         *)
(***************************************************************************)
DockerApiError(message, statusCode, code, retryable) ==
    [name |-> "DockerApiError", message |-> message, statusCode |-> statusCode,
     code |-> IF code = "" THEN "DOCKER_ERROR" ELSE code, retryable |-> retryable,
     retryAfterSeconds |-> Undef, hasDetails |-> FALSE,
     isApiError |-> TRUE, isError |-> TRUE]

RateLimitError(message, retryAfterSeconds) ==
    [DockerApiError(message, Num(429), "RATE_LIMIT_EXCEEDED", TRUE)
        EXCEPT !.name = "RateLimitError", !.retryAfterSeconds = retryAfterSeconds]

AuthenticationError(message) ==
    [DockerApiError(message, Num(401), "AUTHENTICATION_FAILED", FALSE)
        EXCEPT !.name = "AuthenticationError"]

NotFoundError(entityType, id) ==
    [DockerApiError(<<entityType, " with ID '", id, "' not found">>, Num(404),
                    "NOT_FOUND", FALSE)
        EXCEPT !.name = "NotFoundError"]

ValidationError(message) ==
    [DockerApiError(message, Num(400), "VALIDATION_ERROR", FALSE)
        EXCEPT !.name = "ValidationError", !.hasDetails = TRUE]

ConnectionError(message) ==
    [DockerApiError(message, Num(503), "CONNECTION_ERROR", TRUE)
        EXCEPT !.name = "ConnectionError"]

\* a conflict marked retryable
ConflictError_retryable(message) ==
    [DockerApiError(message, Num(409), "CONFLICT", TRUE)
        EXCEPT !.name = "ConflictError"]

ConflictError(message) ==
    [DockerApiError(message, Num(409), "CONFLICT", FALSE)
        EXCEPT !.name = "ConflictError"]

\* an Error of the runtime that is not a DockerApiError
JsError(name, message) ==
    [name |-> name, message |-> message, statusCode |-> Undef, code |-> "",
     retryable |-> FALSE, retryAfterSeconds |-> Undef, hasDetails |-> FALSE,
     isApiError |-> FALSE, isError |-> TRUE]

\* a thrown value that is not an Error at all
NonError ==
    [name |-> "", message |-> <<>>, statusCode |-> Undef, code |-> "",
     retryable |-> FALSE, retryAfterSeconds |-> Undef, hasDetails |-> FALSE,
     isApiError |-> FALSE, isError |-> FALSE]

NoError == [NonError EXCEPT !.name = "none"]

Str(n) == ToString(n)

\* parseDockerError without its 429 case
parseDockerError_no429(statusCode, body) ==
    LET default == <<"Docker API error: ", Str(statusCode)>>
        message ==
            IF body.json.t = "invalid"
            THEN IF body.raw # "" THEN <<body.raw>> ELSE default
            ELSE IF body.json.t = "null"
            THEN <<body.raw>>
            ELSE IF body.json.message # "" THEN <<body.json.message>>
            ELSE IF body.json.error # "" THEN <<body.json.error>>
            ELSE default
    IN  CASE statusCode = 400 -> ValidationError(message)
          [] statusCode \in {401, 403} -> AuthenticationError(message)
          [] statusCode = 404 -> NotFoundError("Resource", "unknown")
          [] statusCode = 409 -> ConflictError(message)
          [] statusCode = 500 -> DockerApiError(message, Num(statusCode), "INTERNAL_ERROR", TRUE)
          [] statusCode = 503 -> ConnectionError(message)
          [] OTHER -> DockerApiError(message, Num(statusCode), "", FALSE)

parseDockerError(statusCode, body) ==
    LET default == <<"Docker API error: ", Str(statusCode)>>
        message ==
            IF body.json.t = "invalid"
            THEN IF body.raw # "" THEN <<body.raw>> ELSE default
            ELSE IF body.json.t = "null"
            THEN <<body.raw>>
            ELSE IF body.json.message # "" THEN <<body.json.message>>
            ELSE IF body.json.error # "" THEN <<body.json.error>>
            ELSE default
    IN  CASE statusCode = 400 -> ValidationError(message)
          [] statusCode \in {401, 403} -> AuthenticationError(message)
          [] statusCode = 404 -> NotFoundError("Resource", "unknown")
          [] statusCode = 409 -> ConflictError(message)
          [] statusCode = 429 -> RateLimitError(message, Num(60))
          [] statusCode = 500 -> DockerApiError(message, Num(statusCode), "INTERNAL_ERROR", TRUE)
          [] statusCode = 503 -> ConnectionError(message)
          [] OTHER -> DockerApiError(message, Num(statusCode), "", FALSE)

(***************************************************************************)
(* types/env.ts and the client constructor                                 *)
(***************************************************************************)
TenantCredentials(dockerHost, apiVersion, hubToken, hubUsername, hubPassword, registryUsername, registryPassword) ==
    [dockerHost |-> dockerHost, apiVersion |-> apiVersion, hubToken |-> hubToken,
     hubUsername |-> hubUsername, hubPassword |-> hubPassword,
     registryUsername |-> registryUsername, registryPassword |-> registryPassword]

\* an engine that is taken as available whatever the host
hasDockerEngineCredentials_always(credentials) == TRUE

hasDockerEngineCredentials(credentials) == credentials.dockerHost # <<>>

\* Hub availability that asks for a hub token only
hasDockerHubCredentials_tokenOnly(credentials) == credentials.hubToken # ""

hasDockerHubCredentials(credentials) ==
    credentials.hubToken # ""
    \/ (credentials.hubUsername # "" /\ credentials.hubPassword # "")

\* a host and a base URL are sequences of characters
TcpPrefix == <<"t", "c", "p", ":", "/", "/">>
HttpPrefix == <<"h", "t", "t", "p", ":", "/", "/">>
HttpsPrefix == <<"h", "t", "t", "p", "s", ":", "/", "/">>

startsWith(host, prefix) ==
    Len(host) >= Len(prefix) /\ SubSeq(host, 1, Len(prefix)) = prefix

\* host resolution that does not know the https scheme
parseDockerHost_noHttps(host) ==
    IF host = <<>> THEN <<>>
    ELSE IF startsWith(host, TcpPrefix) THEN HttpPrefix \o SubSeq(host, 7, Len(host))
    ELSE IF startsWith(host, HttpPrefix) THEN host
    ELSE HttpPrefix \o host

parseDockerHost(host) ==
    IF host = <<>> THEN <<>>
    ELSE IF startsWith(host, TcpPrefix) THEN HttpPrefix \o SubSeq(host, 7, Len(host))
    ELSE IF startsWith(host, HttpPrefix) \/ startsWith(host, HttpsPrefix) THEN host
    ELSE HttpPrefix \o host

DOCKER_API_VERSION == "v1.47"
DOCKER_HUB_API_URL == "https://hub.docker.com/v2"

\* new DockerClientImpl(credentials): the session token starts unset ("")
DockerClientImpl(credentials) ==
    [credentials |-> credentials,
     dockerBaseUrl |-> parseDockerHost(credentials.dockerHost),
     hubToken |-> ""]

(***************************************************************************)
(* client.ts: HTTP request helpers                                         *)
(***************************************************************************)
\* what the upstream does with one request: net is "ok", "fetchError" (fetch
\* rejects with an Error), "fetchNonError" (fetch rejects with a value that
\* is not an Error) or "bodyError" (the headers arrive, reading the body fails)
Response(net, status, ctype, body, retryAfter) ==
    [net |-> net, status |-> status, ctype |-> ctype, body |-> body,
     retryAfter |-> retryAfter]

Request(backend, method, endpoint, registryAuth) ==
    [backend |-> backend, method |-> method, endpoint |-> endpoint, url |-> <<>>,
     authorization |-> <<>>, registryAuth |-> registryAuth]

\* the result of a call: a returned value or a thrown error, and the HTTP
\* requests that were issued on the way
\* the request issued a second time when the error is retryable
Throw_retry(err, requests) ==
    [threw |-> TRUE, val |-> Undefined, err |-> err,
     requests |-> IF err.retryable THEN requests \o requests ELSE requests]

Return(val, requests) == [threw |-> FALSE, err |-> NoError, val |-> val, requests |-> requests]
Throw(err, requests) == [threw |-> TRUE, err |-> err, val |-> Undefined, requests |-> requests]

ok(status) == status >= 200 /\ status <= 299

FetchFailure == JsError("TypeError", <<"fetch failed">>)
BodyFailure == JsError("TypeError", <<"terminated">>)
SyntaxError == JsError("SyntaxError", <<"Unexpected token">>)

\* response.json(): the body text parsed as JSON, whatever the content type
responseJson(resp, requests) ==
    IF resp.net = "bodyError" THEN Throw(BodyFailure, requests)
    ELSE IF resp.body.json.t = "invalid" THEN Throw(SyntaxError, requests)
    ELSE Return(JsonValue(resp.body.json), requests)

responseText(resp, requests) ==
    IF resp.net = "bodyError" THEN Throw(BodyFailure, requests)
    ELSE Return(TextVal(resp.body.raw), requests)

\* the catch clause of dockerRequest
dockerCatch(error) ==
    IF error.name \in {"AuthenticationError", "NotFoundError", "ValidationError",
                       "ConflictError", "RateLimitError", "ConnectionError"}
    THEN error
    ELSE IF error.isError
    THEN ConnectionError(<<"Failed to connect to Docker: ">> \o error.message)
    ELSE ConnectionError(<<"Failed to connect to Docker daemon">>)

dockerRequest(client, request, resp) ==
    IF client.dockerBaseUrl = <<>>
    THEN Throw(ConnectionError(<<"Docker host not configured. Provide X-Docker-Host header.">>), <<>>)
    ELSE
    LET version == IF client.credentials.apiVersion # ""
                   THEN client.credentials.apiVersion ELSE DOCKER_API_VERSION
        sent == <<[request EXCEPT
                     !.url = client.dockerBaseUrl \o <<"/", version>> \o request.endpoint]>>
    IN  IF resp.net = "fetchError" THEN Throw(dockerCatch(FetchFailure), sent)
        ELSE IF resp.net = "fetchNonError" THEN Throw(dockerCatch(NonError), sent)
        ELSE IF ~ok(resp.status)
        THEN IF resp.net = "bodyError"
             THEN Throw(dockerCatch(BodyFailure), sent)
             ELSE Throw(dockerCatch(parseDockerError(resp.status, resp.body)), sent)
        ELSE IF resp.status = 204 THEN Return(Undefined, sent)
        \* the two promises below are returned without await, so their
        \* rejection does not pass through the catch clause
        ELSE IF resp.ctype = "json" THEN responseJson(resp, sent)
        ELSE responseText(resp, sent)

\* Number.parseInt(s, 10) on a string of the header alphabet: the value of
\* the longest prefix of decimal digits, NaN when that prefix is empty
Digits == {"0", "3"}
DigitVal(c) == IF c = "3" THEN 3 ELSE 0

RECURSIVE DigitPrefix(_)
DigitPrefix(chars) ==
    IF chars = <<>> \/ Head(chars) \notin Digits THEN <<>>
    ELSE <<Head(chars)>> \o DigitPrefix(Tail(chars))

RECURSIVE Decimal(_)
Decimal(digits) ==
    IF digits = <<>> THEN 0
    ELSE 10 * Decimal(SubSeq(digits, 1, Len(digits) - 1)) + DigitVal(digits[Len(digits)])

parseInt(chars) ==
    IF DigitPrefix(chars) = <<>> THEN NaN ELSE Num(Decimal(DigitPrefix(chars)))

\* the catch clause of hubRequest
\* a catch clause that wraps classified errors only
hubCatch_rethrowRaw(error) ==
    IF error.name \in {"AuthenticationError", "NotFoundError", "RateLimitError"}
    THEN error
    ELSE IF error.isApiError
    THEN ConnectionError(<<"Failed to connect to Docker Hub: ">> \o error.message)
    ELSE error

hubCatch(error) ==
    IF error.name \in {"AuthenticationError", "NotFoundError", "RateLimitError"}
    THEN error
    ELSE IF error.isError
    THEN ConnectionError(<<"Failed to connect to Docker Hub: ">> \o error.message)
    ELSE ConnectionError(<<"Failed to connect to Docker Hub">>)

\* the static token preferred over the session token
hubAuthorization_staticFirst(client) ==
    IF client.credentials.hubToken # "" THEN <<"Bearer ", client.credentials.hubToken>>
    ELSE IF client.hubToken # "" THEN <<"Bearer ", client.hubToken>>
    ELSE <<>>

\* the Authorization header hubRequest builds (<<>> when it sets none)
hubAuthorization(client) ==
    IF client.hubToken # "" THEN <<"Bearer ", client.hubToken>>
    ELSE IF client.credentials.hubToken # "" THEN <<"Bearer ", client.credentials.hubToken>>
    ELSE <<>>

hubRetryAfter(resp) ==
    IF resp.retryAfter.present /\ resp.retryAfter.chars # <<>>
    THEN parseInt(resp.retryAfter.chars) ELSE Num(60)

hubRequest(client, request, requireAuth, resp) ==
    IF hubAuthorization(client) = <<>> /\ requireAuth
    THEN Throw(AuthenticationError(<<"Docker Hub authentication required. Provide X-Docker-Hub-Token header or login first.">>), <<>>)
    ELSE
    LET sent == <<[request EXCEPT
                     !.url = <<DOCKER_HUB_API_URL>> \o request.endpoint,
                     !.authorization = hubAuthorization(client)]>>
    IN  IF resp.net = "fetchError" THEN Throw(hubCatch(FetchFailure), sent)
        ELSE IF resp.net = "fetchNonError" THEN Throw(hubCatch(NonError), sent)
        ELSE IF resp.status = 429
        THEN Throw(hubCatch(RateLimitError(<<"Docker Hub rate limit exceeded">>,
                                           hubRetryAfter(resp))), sent)
        ELSE IF resp.status \in {401, 403}
        THEN Throw(hubCatch(AuthenticationError(<<"Docker Hub authentication failed. Check your credentials.">>)), sent)
        ELSE IF ~ok(resp.status)
        THEN IF resp.net = "bodyError"
             THEN Throw(hubCatch(BodyFailure), sent)
             ELSE Throw(hubCatch(parseDockerError(resp.status, resp.body)), sent)
        ELSE IF resp.status = 204 THEN Return(Undefined, sent)
        \* returned without await: a rejection skips the catch clause
        ELSE responseJson(resp, sent)

(***************************************************************************)
(* Registry authentication: btoa(JSON.stringify(auth))                     *)
(* Strings that are encoded are sequences of one-character strings.         *)
(***************************************************************************)
\* an optional string field of an object
NoField == [def |-> FALSE, chars |-> <<>>]
Field(chars) == [def |-> TRUE, chars |-> chars]

\* the auth argument: undefined, or an AuthConfig object
NoAuth == [present |-> FALSE, username |-> NoField, password |-> NoField]
AuthConfig(username, password) ==
    [present |-> TRUE, username |-> username, password |-> password]

\* the arguments of one invocation: the auth object handed to the client
\* operation, and the optional username / password given to a tool
\* id is the exec id given to startExec; stage is the step a docker_exec
\* invocation has reached
NoArgs ==
    [auth |-> NoAuth, username |-> NoField, password |-> NoField, page |-> Undef,
     id |-> "exec1", stage |-> ""]
ClientArgs(auth) == [NoArgs EXCEPT !.auth = auth]

Quote == "\""
Letters ==
    <<"a", "b", "c", "d", "e", "f", "g", "h", "i", "j", "k", "l", "m",
      "n", "o", "p", "q", "r", "s", "t", "u", "v", "w", "x", "y", "z">>
Upper ==
    <<"A", "B", "C", "D", "E", "F", "G", "H", "I", "J", "K", "L", "M",
      "N", "O", "P", "Q", "R", "S", "T", "U", "V", "W", "X", "Y", "Z">>
Numerals == <<"0", "1", "2", "3", "4", "5", "6", "7", "8", "9">>

\* the euro sign (U+20AC), a character outside Latin-1
Euro == "U+20AC"

\* the character code of a character of the JSON text
CharCode(ch) ==
    CASE ch = Quote -> 34
      [] ch = Euro -> 8364
      [] ch = "," -> 44
      [] ch = ":" -> 58
      [] ch = "{" -> 123
      [] ch = "}" -> 125
      [] OTHER -> 96 + (CHOOSE i \in 1..26 : Letters[i] = ch)

\* JSON.stringify of an AuthConfig: the defined fields in insertion order
stringifyMember(name, field) ==
    IF field.def THEN <<Quote>> \o name \o <<Quote, ":", Quote>> \o field.chars \o <<Quote>>
    ELSE <<>>

stringifyAuth(auth) ==
    LET u == stringifyMember(<<"u", "s", "e", "r", "n", "a", "m", "e">>, auth.username)
        p == stringifyMember(<<"p", "a", "s", "s", "w", "o", "r", "d">>, auth.password)
    IN  <<"{">> \o u \o (IF u # <<>> /\ p # <<>> THEN <<",">> ELSE <<>>) \o p \o <<"}">>

\* the base64 alphabet
Base64Chars == Upper \o Letters \o Numerals \o <<"+", "/">>

\* btoa: three bytes become four characters, the last group padded with =
btoa(chars) ==
    LET n == Len(chars)
        byte(i) == IF i <= n THEN CharCode(chars[i]) ELSE 0
        groups == (n + 2) \div 3
        word(g) == byte(3 * g - 2) * 65536 + byte(3 * g - 1) * 256 + byte(3 * g)
        digit(g, k) ==
            CASE k = 1 -> word(g) \div 262144
              [] k = 2 -> (word(g) \div 4096) % 64
              [] k = 3 -> (word(g) \div 64) % 64
              [] k = 4 -> word(g) % 64
        char(j) ==
            LET g == (j + 3) \div 4
                k == j - 4 * (g - 1)
            IN  IF 3 * (g - 1) + k - 1 > n THEN "=" ELSE Base64Chars[digit(g, k) + 1]
    IN  [j \in 1..(4 * groups) |-> char(j)]

\* headers['X-Registry-Auth'], set if (auth)
registryAuthHeader(auth) == IF auth.present THEN btoa(stringifyAuth(auth)) ELSE <<>>

\* btoa raises on a character above U+00FF
btoaRaises(chars) == \E i \in 1..Len(chars) : CharCode(chars[i]) > 255

(***************************************************************************)
(* client.ts: engine operations                                            *)
(***************************************************************************)
TypeError(what) == JsError("TypeError", <<what>>)

\* result.map(...) on whatever the request helper returned
mapArray(r, what) ==
    IF r.threw THEN r
    ELSE IF r.val.t = "json" /\ r.val.json.t = "array"
    THEN Return(Val("entities", "", r.val.json), r.requests)
    ELSE Throw(TypeError(what), r.requests)

\* result.Field on whatever the request helper returned
readField(r, what) ==
    IF r.threw THEN r
    ELSE IF IsNullish(r.val) THEN Throw(TypeError(what), r.requests)
    ELSE Return(Val("record", IF r.val.t = "json" THEN r.val.json.id ELSE "", r.val.json),
                r.requests)

\* await and discard
discard(r) == IF r.threw THEN r ELSE Return(Undefined, r.requests)

\* the filters argument: undefined, or one filter name with one value
NoFilters == [def |-> FALSE, name |-> "", value |-> ""]
Filters(name, value) == [def |-> TRUE, name |-> name, value |-> value]

\* encodeURIComponent(JSON.stringify(filters)): {"name":["value"]} with every
\* character that is not unreserved percent-encoded
encodeFilters(filters) ==
    <<"%7B", "%22", filters.name, "%22", "%3A", "%5B", "%22", filters.value, "%22", "%5D", "%7D">>

containersEndpoint(all, filters) ==
    <<"/containers/json?all=", IF all THEN "true" ELSE "false">>
    \o (IF filters.def THEN <<"&filters=">> \o encodeFilters(filters) ELSE <<>>)

listContainers(client, all, filters, resp) ==
    mapArray(dockerRequest(client,
                 Request("engine", "GET", containersEndpoint(all, filters), <<>>), resp),
             "containers.map is not a function")

inspectContainer(client, resp) ==
    dockerRequest(client, Request("engine", "GET", <<"/containers/", "c1", "/json">>, <<>>), resp)

createContainer(client, resp) ==
    readField(dockerRequest(client,
                  Request("engine", "POST", <<"/containers/create">>, <<>>), resp),
              "Cannot read properties of undefined (reading 'Id')")

startContainer(client, resp) ==
    discard(dockerRequest(client,
                Request("engine", "POST", <<"/containers/", "c1", "/start">>, <<>>), resp))

listImages(client, resp) ==
    mapArray(dockerRequest(client,
                 Request("engine", "GET", <<"/images/json?all=", "false">>, <<>>), resp),
             "images.map is not a function")

\* pullImage injecting the tenant-level registry credentials when the caller
\* supplied none
pullImage_tenantAuth(client, auth, resp) ==
    LET tenant == AuthConfig(Field(client.credentials.registryUsername),
                             Field(client.credentials.registryPassword))
        used == IF ~auth.present /\ client.credentials.registryUsername # <<>>
                THEN tenant ELSE auth
    IN  dockerRequest(client,
            Request("engine", "POST", <<"/images/create?fromImage=", "img", "&tag=", "latest">>,
                    registryAuthHeader(used)),
            resp)

InvalidCharacterError == JsError("InvalidCharacterError", <<"Invalid character">>)

\* an engine request whose headers carry X-Registry-Auth: the header is
\* computed before dockerRequest is called
registryRequest(client, method, endpoint, auth, resp) ==
    IF auth.present /\ btoaRaises(stringifyAuth(auth))
    THEN Throw(InvalidCharacterError, <<>>)
    ELSE dockerRequest(client, Request("engine", method, endpoint, registryAuthHeader(auth)),
                       resp)

pullImage(client, auth, resp) ==
    registryRequest(client, "POST",
                    <<"/images/create?fromImage=", "img", "&tag=", "latest">>, auth, resp)

pushImage(client, auth, resp) ==
    registryRequest(client, "POST", <<"/images/", "img", "/push">>, auth, resp)

createService(client, auth, resp) ==
    readField(registryRequest(client, "POST", <<"/services/create">>, auth, resp),
              "Cannot read properties of undefined (reading 'ID')")

updateService(client, auth, resp) ==
    readField(registryRequest(client, "POST",
                              <<"/services/", "svc", "/update?version=", "1">>, auth, resp),
              "Cannot read properties of undefined (reading 'Warnings')")

\* result?.map(...) || []
removeImage(client, resp) ==
    LET r == dockerRequest(client,
                 Request("engine", "DELETE", <<"/images/", "img", "?force=", "false", "&noprune=", "false">>, <<>>),
                 resp)
    IN  IF r.threw THEN r
        ELSE IF IsNullish(r.val) THEN Return(Val("entities", "", JArray(0)), r.requests)
        ELSE mapArray(r, "result?.map is not a function")

createExec(client, resp) ==
    readField(dockerRequest(client,
                  Request("engine", "POST", <<"/containers/", "c1", "/exec">>, <<>>), resp),
              "Cannot read properties of undefined (reading 'Id')")

startExec(client, id, resp) ==
    dockerRequest(client, Request("engine", "POST", <<"/exec/", id, "/start">>, <<>>), resp)

ping(client, resp) ==
    dockerRequest(client, Request("engine", "GET", <<"/_ping">>, <<>>), resp)

EngineOps == {"listContainers", "inspectContainer", "createContainer", "startContainer",
              "listImages", "pullImage", "removeImage", "createExec", "startExec", "ping"}
\* the operations that take registry credentials
RegistryOps == {"pullImage", "pushImage", "createService", "updateService"}

EngineCall(client, op, args, resp) ==
    CASE op = "listContainers" -> listContainers(client, FALSE, NoFilters, resp)
      [] op = "inspectContainer" -> inspectContainer(client, resp)
      [] op = "createContainer" -> createContainer(client, resp)
      [] op = "startContainer" -> startContainer(client, resp)
      [] op = "listImages" -> listImages(client, resp)
      [] op = "pullImage" -> pullImage(client, args.auth, resp)
      [] op = "removeImage" -> removeImage(client, resp)
      [] op = "createExec" -> createExec(client, resp)
      [] op = "startExec" -> startExec(client, args.id, resp)
      [] op = "ping" -> ping(client, resp)
      [] op = "pushImage" -> pushImage(client, args.auth, resp)
      [] op = "createService" -> createService(client, args.auth, resp)
      [] op = "updateService" -> updateService(client, args.auth, resp)

(***************************************************************************)
(* client.ts: Hub operations                                               *)
(***************************************************************************)
HubRepo == <<"/repositories/", "ns", "/", "repo">>

\* result.results.map(...) / result.results.length of a page
\* String(n) of a natural number: its decimal digits
RECURSIVE decimalString(_)
decimalString(n) ==
    IF n < 10 THEN <<Numerals[n + 1]>>
    ELSE decimalString(n \div 10) \o <<Numerals[(n % 10) + 1]>>

\* the page parameter: page = 1 when the argument is omitted
pageOf(args) == IF args.page.def THEN args.page.val ELSE 1

\* a page whose cursor names the requested page again
mapPage_samePage(r, page) ==
    IF r.threw THEN r
    ELSE IF IsNullish(r.val)
    THEN Throw(TypeError("Cannot read properties of undefined (reading 'results')"), r.requests)
    ELSE IF ~r.val.json.hasResults
    THEN Throw(TypeError("Cannot read properties of undefined (reading 'map')"), r.requests)
    ELSE Return([Val("page", "", r.val.json) EXCEPT
                    !.page = PaginatedResponse(r.val.json.n, r.val.json.n, r.val.json.count,
                                 r.val.json.next,
                                 IF r.val.json.next THEN Field(decimalString(page))
                                 ELSE NoField)],
                r.requests)

mapPage(r, page) ==
    IF r.threw THEN r
    ELSE IF IsNullish(r.val)
    THEN Throw(TypeError("Cannot read properties of undefined (reading 'results')"), r.requests)
    ELSE IF ~r.val.json.hasResults
    THEN Throw(TypeError("Cannot read properties of undefined (reading 'map')"), r.requests)
    ELSE Return([Val("page", "", r.val.json) EXCEPT
                    !.page = PaginatedResponse(r.val.json.n, r.val.json.n, r.val.json.count,
                                 r.val.json.next,
                                 IF r.val.json.next THEN Field(decimalString(page + 1))
                                 ELSE NoField)],
                r.requests)

\* hubLogin returns the token; the caller stores it in this.hubToken
hubLogin(client, resp) ==
    LET r == hubRequest(client, Request("hub", "POST", <<"/users/login">>, <<>>), FALSE, resp)
    IN  IF r.threw THEN r
        ELSE IF IsNullish(r.val)
        THEN Throw(TypeError("Cannot read properties of undefined (reading 'token')"), r.requests)
        ELSE IF r.val.json.token = "" THEN Return(Undefined, r.requests)
        ELSE Return(TextVal(r.val.json.token), r.requests)

\* a login that forgets the stored token when it fails
hubLoginToken_clearedOnFailure(client, resp) ==
    LET r == hubLogin(client, resp)
    IN  IF r.threw THEN ""
        ELSE IF r.val.t = "text" THEN r.val.raw ELSE ""

\* this.hubToken after hubLogin: assigned only when the request returned
hubLoginToken(client, resp) ==
    LET r == hubLogin(client, resp)
    IN  IF r.threw THEN client.hubToken
        ELSE IF r.val.t = "text" THEN r.val.raw ELSE ""

hubGetRepositories(client, page, resp) ==
    mapPage(hubRequest(client,
                Request("hub", "GET",
                        <<"/repositories/", "ns", "/?page=">> \o decimalString(page)
                            \o <<"&page_size=", "25">>, <<>>),
                FALSE, resp), page)

hubGetRepository(client, resp) ==
    readField(hubRequest(client, Request("hub", "GET", HubRepo \o <<"/">>, <<>>), FALSE, resp),
              "Cannot read properties of undefined (reading 'user')")

hubGetTags(client, page, resp) ==
    mapPage(hubRequest(client,
                Request("hub", "GET",
                        HubRepo \o <<"/tags/?page=">> \o decimalString(page)
                            \o <<"&page_size=", "25">>, <<>>),
                FALSE, resp), page)

hubGetTag(client, resp) ==
    readField(hubRequest(client, Request("hub", "GET", HubRepo \o <<"/tags/", "t1", "/">>, <<>>),
                         FALSE, resp),
              "Cannot read properties of undefined (reading 'creator')")

hubDeleteTag(client, resp) ==
    discard(hubRequest(client, Request("hub", "DELETE", HubRepo \o <<"/tags/", "t1", "/">>, <<>>),
                       TRUE, resp))

hubGetWebhooks(client, resp) ==
    readField(hubRequest(client, Request("hub", "GET", HubRepo \o <<"/webhooks/">>, <<>>),
                         TRUE, resp),
              "Cannot read properties of undefined (reading 'results')")

hubCreateWebhook(client, resp) ==
    hubRequest(client, Request("hub", "POST", HubRepo \o <<"/webhooks/">>, <<>>), TRUE, resp)

hubDeleteWebhook(client, resp) ==
    discard(hubRequest(client, Request("hub", "DELETE", HubRepo \o <<"/webhooks/", "7", "/">>, <<>>),
                       TRUE, resp))

\* the build settings fetched without requiring authentication
hubGetBuildSettings_noAuth(client, resp) ==
    hubRequest(client, Request("hub", "GET", HubRepo \o <<"/autobuild/">>, <<>>), FALSE, resp)

hubGetBuildSettings(client, resp) ==
    hubRequest(client, Request("hub", "GET", HubRepo \o <<"/autobuild/">>, <<>>), TRUE, resp)

hubGetBuildHistory(client, page, resp) ==
    mapPage(hubRequest(client,
                Request("hub", "GET",
                        HubRepo \o <<"/buildhistory/?page=">> \o decimalString(page)
                            \o <<"&page_size=", "25">>, <<>>),
                TRUE, resp), page)

hubTriggerBuild(client, resp) ==
    discard(hubRequest(client,
                Request("hub", "POST", HubRepo \o <<"/autobuild/trigger-build/">>, <<>>),
                TRUE, resp))

\* the Hub operations other than login
HubOps == {"hubGetRepositories", "hubGetRepository", "hubGetTags", "hubGetTag",
           "hubDeleteTag", "hubGetWebhooks", "hubCreateWebhook", "hubDeleteWebhook",
           "hubGetBuildSettings", "hubGetBuildHistory", "hubTriggerBuild"}

HubCall(client, op, args, resp) ==
    CASE op = "hubLogin" -> hubLogin(client, resp)
      [] op = "hubGetRepositories" -> hubGetRepositories(client, pageOf(args), resp)
      [] op = "hubGetRepository" -> hubGetRepository(client, resp)
      [] op = "hubGetTags" -> hubGetTags(client, pageOf(args), resp)
      [] op = "hubGetTag" -> hubGetTag(client, resp)
      [] op = "hubDeleteTag" -> hubDeleteTag(client, resp)
      [] op = "hubGetWebhooks" -> hubGetWebhooks(client, resp)
      [] op = "hubCreateWebhook" -> hubCreateWebhook(client, resp)
      [] op = "hubDeleteWebhook" -> hubDeleteWebhook(client, resp)
      [] op = "hubGetBuildSettings" -> hubGetBuildSettings(client, resp)
      [] op = "hubGetBuildHistory" -> hubGetBuildHistory(client, pageOf(args), resp)
      [] op = "hubTriggerBuild" -> hubTriggerBuild(client, resp)

(***************************************************************************)
(* utils/formatters.ts and the tool handlers                               *)
(***************************************************************************)
formatErrorForLogging(error) ==
    IF error.isApiError
    THEN [name |-> error.name, message |-> error.message, code |-> error.code,
          statusCode |-> error.statusCode, retryable |-> error.retryable,
          retryAfterSeconds |-> IF error.name = "RateLimitError"
                                THEN error.retryAfterSeconds ELSE Undef,
          hasDetails |-> error.name = "ValidationError",
          hasStack |-> FALSE, error |-> ""]
    ELSE IF error.isError
    THEN [name |-> error.name, message |-> error.message, code |-> "",
          statusCode |-> Undef, retryable |-> FALSE, retryAfterSeconds |-> Undef,
          hasDetails |-> FALSE, hasStack |-> TRUE, error |-> ""]
    ELSE [name |-> "", message |-> <<>>, code |-> "",
          statusCode |-> Undef, retryable |-> FALSE, retryAfterSeconds |-> Undef,
          hasDetails |-> FALSE, hasStack |-> FALSE, error |-> "String(error)"]

\* a tool response: the content list and the isError marker (FALSE: no marker)
ToolResponse(text, isError) ==
    [content |-> <<[type |-> "text", text |-> text]>>, isError |-> isError]

\* the own keys of the object formatErrorForLogging returns
infoKeys(error) ==
    IF error.isApiError
    THEN {"name", "message", "code", "statusCode", "retryable"}
         \cup (IF error.name = "RateLimitError" THEN {"retryAfterSeconds"} ELSE {})
         \cup (IF error.name = "ValidationError" THEN {"details"} ELSE {})
    ELSE IF error.isError THEN {"name", "message", "stack"}
    ELSE {"error"}

\* JSON.stringify of a number: NaN is written as null
jsonNumber(x) ==
    IF ~x.def THEN [t |-> "undefined", val |-> 0]
    ELSE IF x.nan THEN [t |-> "null", val |-> 0]
    ELSE [t |-> "number", val |-> x.val]

\* JSON.stringify of the details object: a key whose value is undefined is
\* left out
stringifyInfo(error, info) ==
    [info EXCEPT
        !.statusCode = jsonNumber(info.statusCode),
        !.retryAfterSeconds = jsonNumber(info.retryAfterSeconds)]
    @@ [keys |-> {k \in infoKeys(error) :
                    /\ k = "statusCode" => info.statusCode.def
                    /\ k = "retryAfterSeconds" => info.retryAfterSeconds.def}]

\* the failure envelope with the retryable suffix on every error
formatError_alwaysRetryable(error) ==
    ToolResponse([error |-> <<"Error: ">> \o error.message \o <<" (retryable)">>,
                  details |-> stringifyInfo(error, formatErrorForLogging(error))], TRUE)

formatError(error) ==
    LET message ==
            IF error.isApiError
            THEN <<"Error: ">> \o error.message
                 \o (IF error.retryable THEN <<" (retryable)">> ELSE <<>>)
            ELSE IF error.isError THEN <<"Error: ">> \o error.message
            ELSE <<"Error: ", "String(error)">>
    IN  ToolResponse([error |-> message,
                      details |-> stringifyInfo(error, formatErrorForLogging(error))], TRUE)

\* what a tool invocation hands back to the dispatch layer: a response, or an
\* exception thrown out of the handler
Responded(response) == [threw |-> FALSE, response |-> response]
Escaped(error) == [threw |-> TRUE, response |-> ToolResponse(error, TRUE)]
NotATool == [threw |-> FALSE, response |-> [content |-> <<>>, isError |-> FALSE]]

\* try { result = await client.op(...); return <success> } catch (error)
\* { return formatError(error) }.  docker_hub_login reads token.length inside
\* the try block.
\* a handler whose catch clause formats classified errors only
toolHandler_classifiedOnly(op, out) ==
    IF out.threw /\ out.err.isApiError THEN Responded(formatError(out.err))
    ELSE IF out.threw THEN Escaped(out.err)
    ELSE IF op = "hubLogin" /\ out.val.t = "undefined"
    THEN Escaped(TypeError("Cannot read properties of undefined (reading 'length')"))
    ELSE Responded(ToolResponse([success |-> TRUE, result |-> out.val], FALSE))

toolHandler(op, out) ==
    IF out.threw THEN Responded(formatError(out.err))
    ELSE IF op = "hubLogin" /\ out.val.t = "undefined"
    THEN Responded(formatError(TypeError("Cannot read properties of undefined (reading 'length')")))
    ELSE Responded(ToolResponse([success |-> TRUE, result |-> out.val], FALSE))

(***************************************************************************)
(* tools/exec.ts: docker_exec, a tool of two upstream steps                *)
(***************************************************************************)
\* a start that always names the same exec instance
idText_fixed(val) == "exec1"

\* `/exec/${id}/start` with the id of { id: result.Id }
idText(val) == IF val.t = "record" /\ val.raw # "" THEN val.raw ELSE "undefined"

\* text: output || '(no output)'
execHandler(out) ==
    IF out.threw THEN Responded(formatError(out.err))
    ELSE IF out.val.t = "undefined" \/ (out.val.t = "text" /\ out.val.raw = "")
    THEN Responded(ToolResponse([success |-> TRUE, result |-> TextVal("(no output)")], FALSE))
    ELSE Responded(ToolResponse([success |-> TRUE, result |-> out.val], FALSE))

(***************************************************************************)
(* index.ts: the /mcp endpoint                                             *)
(***************************************************************************)
\* a request header: absent, or present with a value
NoHeader == [present |-> FALSE, value |-> ""]
NoHostHeader == [present |-> FALSE, value |-> <<>>]
H(value) == [present |-> TRUE, value |-> value]

\* the tenant headers of a request that carries none
NoRequest ==
    [host |-> NoHostHeader, apiVersion |-> NoHeader, hubToken |-> NoHeader,
     hubUsername |-> NoHeader, hubPassword |-> NoHeader,
     registryUsername |-> NoHostHeader, registryPassword |-> NoHostHeader]

\* headers.get(name) || undefined
parseTenantCredentials(request) ==
    TenantCredentials(
        IF request.host.present THEN request.host.value ELSE <<>>,
        IF request.apiVersion.present THEN request.apiVersion.value ELSE "",
        IF request.hubToken.present THEN request.hubToken.value ELSE "",
        IF request.hubUsername.present THEN request.hubUsername.value ELSE "",
        IF request.hubPassword.present THEN request.hubPassword.value ELSE "",
        IF request.registryUsername.present THEN request.registryUsername.value ELSE <<>>,
        IF request.registryPassword.present THEN request.registryPassword.value ELSE <<>>)

EngineTools == EngineOps
HubTools == HubOps \cup {"hubLogin"}

\* the Hub tools registered whatever the credentials
registeredTools_hubAlways(credentials) ==
    (IF hasDockerEngineCredentials(credentials) THEN EngineTools ELSE {})
    \cup HubTools
    \cup {"docker_test_connection"}

\* the tools createStatelessServer registers
registeredTools(credentials) ==
    (IF hasDockerEngineCredentials(credentials) THEN EngineTools ELSE {})
    \cup (IF hasDockerHubCredentials(credentials) THEN HubTools ELSE {})
    \cup {"docker_test_connection"}

NoCredentials == TenantCredentials(<<>>, "", "", "", "", <<>>, <<>>)
\* the operation a session is busy with: phase "waiting" while its HTTP
\* exchange is outstanding, "done" once its result is ready for the caller
NoPending == [phase |-> "idle", layer |-> "none", op |-> "", args |-> NoArgs]
NoSession ==
    [state |-> "none", client |-> DockerClientImpl(NoCredentials), tools |-> {},
     pending |-> NoPending, authSent |-> FALSE]
Rejected == [NoSession EXCEPT !.state = "rejected"]

createStatelessServer(credentials) ==
    [state |-> "session", client |-> DockerClientImpl(credentials),
     tools |-> registeredTools(credentials), pending |-> NoPending, authSent |-> FALSE]

(***************************************************************************)
(* State                                                                   *)
(*   clients[c]  the session of inbound call c: its backend client (tenant  *)
(*               credentials, engine base URL, Hub session token), the      *)
(*               tools registered for it, the operation that is waiting     *)
(*               for its HTTP exchange, and (history, not a field of the    *)
(*               program) whether a request of the session already carried  *)
(*               registry credentials                                       *)
(*   last        the most recent step: who acted, the operation, what the   *)
(*               upstream answered, what the client operation returned or   *)
(*               threw, and what the tool handler handed back               *)
(***************************************************************************)
NoResponse == Response("none", 0, "none", EmptyBody, Absent)
NoOutcome == Return(Undefined, <<>>)

Step(layer, call, op, resp, out, tool, httpStatus) ==
    [layer |-> layer, call |-> call, op |-> op, args |-> NoArgs, request |-> NoRequest,
     resp |-> resp, out |-> out, tool |-> tool, httpStatus |-> httpStatus]

ClientCall(client, op, args, resp) ==
    IF op \in EngineOps \cup RegistryOps
    THEN EngineCall(client, op, args, resp) ELSE HubCall(client, op, args, resp)

\* the requests an operation issues do not depend on the answer
Issued(client, op, args) == ClientCall(client, op, args, NoResponse).requests

\* the session token kept in one variable shared by every client
Finished_sharedToken(c, layer, op, args, resp) ==
    LET client == clients[c].client
        out == ClientCall(client, op, args, resp)
    IN  /\ last' = [Step(layer, c, op, resp, out,
                         IF layer = "tool" THEN toolHandler(op, out) ELSE NotATool, 0)
                        EXCEPT !.args = args]
        /\ clients' = [d \in DOMAIN clients |->
                         [clients[d] EXCEPT
                            !.pending = IF d = c
                                        THEN [phase |-> "done", layer |-> layer, op |-> op, args |-> args]
                                        ELSE clients[d].pending,
                            !.client.hubToken =
                                IF op = "hubLogin" THEN hubLoginToken(client, resp)
                                ELSE clients[d].client.hubToken]]

\* the whole operation once its HTTP exchange (if any) has settled
Finished(c, layer, op, args, resp) ==
    LET client == clients[c].client
        out == ClientCall(client, op, args, resp)
    IN  /\ last' = [Step(layer, c, op, resp, out,
                         IF layer = "tool" THEN toolHandler(op, out) ELSE NotATool, 0)
                        EXCEPT !.args = args]
        /\ clients' = [clients EXCEPT
                         ![c].pending = [phase |-> "done", layer |-> layer, op |-> op, args |-> args],
                         ![c].client.hubToken =
                             IF op = "hubLogin" THEN hubLoginToken(client, resp)
                             ELSE client.hubToken]

\* an operation begins: it either fails before any HTTP call, or issues its
\* request and waits for the upstream
Begin(c, layer, op, args) ==
    IF Issued(clients[c].client, op, args) = <<>>
    THEN Finished(c, layer, op, args, NoResponse)
    ELSE /\ clients' = [clients EXCEPT
                          ![c].pending = [phase |-> "waiting", layer |-> layer, op |-> op,
                                          args |-> args],
                          ![c].authSent = @ \/ args.auth.present]
         /\ last' = [Step("sent", c, op, NoResponse,
                          Return(Undefined, Issued(clients[c].client, op, args)), NotATool, 0)
                        EXCEPT !.args = args]

\* POST /mcp
McpPost(c, request) ==
    /\ clients[c].state = "none"
    /\ LET credentials == parseTenantCredentials(request)
       IN  IF ~hasDockerEngineCredentials(credentials) /\ ~hasDockerHubCredentials(credentials)
           THEN /\ clients' = [clients EXCEPT ![c] = Rejected]
                /\ last' = [Step("fetch", c, "mcp", NoResponse, NoOutcome, NotATool, 401)
                               EXCEPT !.request = request]
           ELSE /\ clients' = [clients EXCEPT ![c] = createStatelessServer(credentials)]
                /\ last' = [Step("fetch", c, "mcp", NoResponse, NoOutcome, NotATool, 200)
                               EXCEPT !.request = request]

\* an operation of the backend client of call c is called
ClientOp(c, op) ==
    /\ clients[c].state = "session"
    /\ clients[c].pending = NoPending
    /\ Begin(c, "client", op, NoArgs)

\* a client operation that takes registry credentials is called
ClientOpAuth(c, op, auth) ==
    /\ clients[c].state = "session"
    /\ clients[c].pending = NoPending
    /\ Begin(c, "client", op, ClientArgs(auth))

\* a paginated Hub listing is called, or its tool invoked, with a page number
\* (the tool's schema makes page an integer >= 1, default 1)
PagedOp(c, layer, op, page) ==
    /\ clients[c].state = "session"
    /\ clients[c].pending = NoPending
    /\ layer = "tool" => (op \in clients[c].tools /\ page.def)
    /\ Begin(c, layer, op, [NoArgs EXCEPT !.page = page])

\* docker_pull_image: auth = username && password ? { username, password } : undefined
pullAuth(username, password) ==
    IF username.def /\ username.chars # <<>> /\ password.def /\ password.chars # <<>>
    THEN AuthConfig(username, password) ELSE NoAuth

ToolPull(c, username, password) ==
    /\ clients[c].state = "session"
    /\ clients[c].pending = NoPending
    /\ "pullImage" \in clients[c].tools
    /\ Begin(c, "tool", "pullImage",
             [NoArgs EXCEPT !.auth = pullAuth(username, password),
                            !.username = username, !.password = password])

\* docker_push_image: client.pushImage(name, tag, { username, password })
ToolPush(c, username, password) ==
    /\ clients[c].state = "session"
    /\ clients[c].pending = NoPending
    /\ "pullImage" \in clients[c].tools
    /\ Begin(c, "tool", "pushImage",
             [NoArgs EXCEPT !.auth = AuthConfig(username, password),
                            !.username = username, !.password = password])

\* a registered tool of the session of call c is invoked
ToolInvoke(c, op) ==
    /\ clients[c].state = "session"
    /\ clients[c].pending = NoPending
    /\ op \in clients[c].tools
    /\ Begin(c, "tool", op, NoArgs)

\* the HTTP exchange of the waiting operation settles
Upstream(c, resp) ==
    /\ clients[c].pending.phase = "waiting"
    /\ Finished(c, clients[c].pending.layer, clients[c].pending.op, clients[c].pending.args, resp)

\* the caller takes the result of the finished operation
Deliver(c) ==
    /\ clients[c].pending.phase = "done"
    /\ clients' = [clients EXCEPT ![c].pending = NoPending]
    /\ last' = Step("delivered", c, "", NoResponse, NoOutcome, NotATool, 0)

(***************************************************************************)
(* Inputs                                                                  *)
(***************************************************************************)
SeqsUpTo(S, n) == UNION {[1..k -> S] : k \in 0..n}

HostHeaders == {NoHostHeader, H(TcpPrefix \o <<"h">>)}
HubTokenHeaders == {NoHeader, H("tokA")}
McpRequests ==
    [host : HostHeaders, apiVersion : {NoHeader}, hubToken : HubTokenHeaders,
     hubUsername : {NoHeader, H("u")}, hubPassword : {NoHeader, H("p")},
     registryUsername : {NoHostHeader}, registryPassword : {NoHostHeader}]

HeaderChars == {"0", "3", "a"}
RetryAfterValues == {Absent} \cup {Header(s) : s \in SeqsUpTo(HeaderChars, MaxHeaderLen)}

ErrStatuses == {400, 401, 403, 404, 409, 418, 429, 500, 502, 503}
ErrBodies == {EmptyBody, TextBody, MessageBody}
SessionTokens == {"sessA", "sessB"}

FailedResponses ==
    {Response(net, 0, "none", EmptyBody, Absent) : net \in {"fetchError", "fetchNonError"}}
    \cup {Response("bodyError", s, "json", EmptyBody, Absent) : s \in {200, 500}}
ErrorResponses ==
    {Response("ok", s, "json", b, Absent) : s \in ErrStatuses, b \in ErrBodies}
    \cup {Response("ok", 429, "json", EmptyBody, ra) : ra \in RetryAfterValues}
EngineOkBodies ==
    {EmptyBody, TextBody, NullBody, IdBody, EmptyObjectBody}
    \cup {ArrayBody(n) : n \in 0..MaxItems}
HubOkBodies ==
    {EmptyBody, NullBody, IdBody, EmptyObjectBody}
    \cup {TokenBody(t) : t \in SessionTokens}
    \cup {PageBody(n, next) : n \in 0..MaxItems, next \in BOOLEAN}

EngineResponses ==
    FailedResponses \cup ErrorResponses
    \cup {Response("ok", 200, ct, b, Absent) : ct \in {"json", "text"}, b \in EngineOkBodies}
    \cup {Response("ok", 200, "none", TextBody, Absent), Response("ok", 204, "none", EmptyBody, Absent)}
HubResponses ==
    FailedResponses \cup ErrorResponses
    \cup {Response("ok", 200, "json", b, Absent) : b \in HubOkBodies}
    \cup {Response("ok", 200, "text", TextBody, Absent)}
    \cup {Response("ok", 204, "none", EmptyBody, Absent)}

(***************************************************************************)
(* Specification: one inbound call, every operation, every upstream answer *)
(***************************************************************************)
Init ==
    /\ clients = [c \in {1} |-> NoSession]
    /\ last = Step("init", 0, "", NoResponse, NoOutcome, NotATool, 0)

AllOps == EngineOps \cup HubOps \cup {"hubLogin"}

ResponsesFor(op) == IF op \in EngineOps THEN EngineResponses ELSE HubResponses

Next ==
    \E c \in DOMAIN clients :
        \/ \E request \in McpRequests : McpPost(c, request)
        \/ \E op \in AllOps : ClientOp(c, op)
        \/ \E op \in AllOps : ToolInvoke(c, op)
        \/ \E resp \in ResponsesFor(clients[c].pending.op) : Upstream(c, resp)
        \/ Deliver(c)

Spec == Init /\ [][Next]_vars

(***************************************************************************)
(* Vocabulary of the error table                                           *)
(***************************************************************************)
\* the normalized kind of a thrown value ("Raw": not a classified error)
Kind(err) ==
    CASE err.name = "ValidationError" -> "ValidationFailure"
      [] err.name = "AuthenticationError" -> "AuthenticationFailure"
      [] err.name = "NotFoundError" -> "NotFound"
      [] err.name = "ConflictError" -> "Conflict"
      [] err.name = "RateLimitError" -> "RateLimitExceeded"
      [] err.name = "ConnectionError" -> "ConnectionFailure"
      [] err.name = "DockerApiError" /\ err.code = "INTERNAL_ERROR" -> "InternalUpstreamError"
      [] err.name = "DockerApiError" /\ err.code # "INTERNAL_ERROR" -> "GenericBackendError"
      [] OTHER -> "Raw"

\* the kind the error table assigns to a non-2xx status
TableKind(status) ==
    CASE status = 400 -> "ValidationFailure"
      [] status \in {401, 403} -> "AuthenticationFailure"
      [] status = 404 -> "NotFound"
      [] status = 409 -> "Conflict"
      [] status = 429 -> "RateLimitExceeded"
      [] status = 500 -> "InternalUpstreamError"
      [] status = 503 -> "ConnectionFailure"
      [] OTHER -> "GenericBackendError"

TableRetryable(kind) ==
    kind \in {"RateLimitExceeded", "InternalUpstreamError", "ConnectionFailure"}

\* the last step is a completed client operation (called directly or by a tool)
Completed == last.layer \in {"client", "tool"}

\* the upstream answered the completed operation with a non-2xx status
AnsweredWithError ==
    Completed /\ last.resp.net = "ok" /\ ~ok(last.resp.status)

(***************************************************************************)
(* C1: for every engine operation and every non-2xx upstream status other   *)
(* than 429, the error that reaches the caller has the kind (and the        *)
(* retryable flag) the error table assigns to that status.                  *)
(***************************************************************************)
C1_EngineErrorKinds ==
    (AnsweredWithError /\ last.op \in EngineOps /\ last.resp.status # 429)
        => /\ last.out.threw
           /\ Kind(last.out.err) = TableKind(last.resp.status)
           /\ last.out.err.retryable = TableRetryable(TableKind(last.resp.status))

(***************************************************************************)
(* C2: for every Hub operation and every non-2xx upstream status, the error *)
(* that reaches the caller has the kind (and the retryable flag) the error  *)
(* table assigns to that status.                                            *)
(***************************************************************************)
C2_HubErrorKinds ==
    (AnsweredWithError /\ last.op \notin EngineOps)
        => /\ last.out.threw
           /\ Kind(last.out.err) = TableKind(last.resp.status)
           /\ last.out.err.retryable = TableRetryable(TableKind(last.resp.status))

(***************************************************************************)
(* C3 as stated: a 429 from the engine backend yields GenericBackendError,  *)
(* never RateLimitExceeded.                                                 *)
(***************************************************************************)
C3_Engine429Generic ==
    (AnsweredWithError /\ last.op \in EngineOps /\ last.resp.status = 429)
        => /\ last.out.threw
           /\ Kind(last.out.err) = "GenericBackendError"

(***************************************************************************)
(* C3 amended: a 429 from the engine backend yields RateLimitExceeded       *)
(* (retryable) through the 429 case of the status mapping, and its          *)
(* retryAfterSeconds is 60 whatever the Retry-After header says; only the   *)
(* Hub backend reads that header.                                           *)
(***************************************************************************)
C3_Engine429RateLimit ==
    (AnsweredWithError /\ last.op \in EngineOps /\ last.resp.status = 429)
        => /\ last.out.threw
           /\ Kind(last.out.err) = "RateLimitExceeded"
           /\ last.out.err.retryable
           /\ last.out.err.retryAfterSeconds = Num(60)

C3_Witness ==
    /\ AnsweredWithError /\ last.op \in EngineOps /\ last.resp.status = 429
    /\ last.resp.retryAfter = Header(<<"3", "0">>)
    /\ last.out.err.name = "RateLimitError"

(***************************************************************************)
(* C4: a 429 from the Hub backend raises RateLimitExceeded whose            *)
(* retryAfterSeconds is the number in the Retry-After header when the       *)
(* header holds a number, and 60 when the header is absent or not numeric.  *)
(***************************************************************************)
IsNumeric(chars) == chars # <<>> /\ \A i \in 1..Len(chars) : chars[i] \in Digits

C4_HubRetryAfter ==
    (AnsweredWithError /\ last.op \notin EngineOps /\ last.resp.status = 429)
        => /\ last.out.threw
           /\ Kind(last.out.err) = "RateLimitExceeded"
           /\ last.out.err.retryAfterSeconds =
                IF last.resp.retryAfter.present /\ IsNumeric(last.resp.retryAfter.chars)
                THEN Num(Decimal(last.resp.retryAfter.chars))
                ELSE Num(60)

(***************************************************************************)
(* C5: every Backend Client operation either returns a value or raises a    *)
(* classified error of the normalized kinds; no raw error escapes.          *)
(***************************************************************************)
C5_NoRawErrorEscapes ==
    (Completed /\ last.out.threw) => last.out.err.isApiError

(***************************************************************************)
(* C6: every tool invocation hands back a response envelope with exactly    *)
(* one text item and never throws; the envelope carries isError = true      *)
(* whenever the client operation failed, and carries no error marker when   *)
(* the invocation succeeded (the only failure that is not a failure of the  *)
(* client operation is docker_hub_login reading the length of a missing     *)
(* token).                                                                  *)
(***************************************************************************)
WellFormed(response) ==
    /\ Len(response.content) = 1
    /\ response.content[1].type = "text"

IsoRequests ==
    {[host |-> NoHostHeader, apiVersion |-> NoHeader, hubToken |-> H("tokA"),
      hubUsername |-> NoHeader, hubPassword |-> NoHeader,
      registryUsername |-> NoHostHeader, registryPassword |-> NoHostHeader],
     [host |-> NoHostHeader, apiVersion |-> NoHeader, hubToken |-> NoHeader,
      hubUsername |-> H("u"), hubPassword |-> H("p"),
      registryUsername |-> NoHostHeader, registryPassword |-> NoHostHeader]}
IsoOps == {"hubLogin", "hubGetRepository"}
IsoResponses ==
    {Response("ok", 200, "json", TokenBody(t), Absent) : t \in SessionTokens}
    \cup {Response("ok", 401, "json", EmptyBody, Absent)}

InitIso ==
    /\ clients = [c \in 1..NumCalls |-> NoSession]
    /\ last = Step("init", 0, "", NoResponse, NoOutcome, NotATool, 0)

NextIso ==
    \E c \in DOMAIN clients :
        \/ \E request \in IsoRequests : McpPost(c, request)
        \/ \E op \in IsoOps : ClientOp(c, op)
        \/ \E resp \in IsoResponses : Upstream(c, resp)
        \/ Deliver(c)

SpecIso == InitIso /\ [][NextIso]_vars

(***************************************************************************)
(* C7: tenant isolation of the Hub session token.  In every step, the       *)
(* session of every call other than the acting one is left as it was; the   *)
(* Authorization header of a Hub request is the bearer of the acting        *)
(* call's own session token, else of its own static token, else absent;     *)
(* and a session token changes only when a login of that same call          *)
(* finishes, to the token the Hub returned to that login.                   *)
(***************************************************************************)
OwnAuthorization(session) ==
    IF session.client.hubToken # "" THEN <<"Bearer ", session.client.hubToken>>
    ELSE IF session.client.credentials.hubToken # ""
    THEN <<"Bearer ", session.client.credentials.hubToken>>
    ELSE <<>>

C7_TenantIsolation ==
    [][\A c \in DOMAIN clients :
          /\ last'.call # c => clients'[c] = clients[c]
          /\ (last'.layer = "sent" /\ last'.call = c /\ last'.op \notin EngineOps)
                => /\ Len(last'.out.requests) = 1
                   /\ last'.out.requests[1].authorization = OwnAuthorization(clients[c])
          /\ clients'[c].client.hubToken # clients[c].client.hubToken
                => /\ last'.call = c /\ last'.op = "hubLogin" /\ ~last'.out.threw
                   /\ clients'[c].client.hubToken = last'.resp.body.json.token]_vars

\* call 1 has logged in while call 2, a session of another tenant, sends a Hub
\* request that carries its own static token
C7_Witness ==
    /\ DOMAIN clients = 1..NumCalls
    /\ clients[1].client.hubToken = "sessA"
    /\ clients[1].client.credentials.hubToken = ""
    /\ clients[2].state = "session" /\ clients[2].client.hubToken = ""
    /\ last.layer = "sent" /\ last.call = 2 /\ last.op = "hubGetRepository"
    /\ last.out.requests[1].authorization = <<"Bearer ", "tokA">>

(***************************************************************************)
(* C8: an auth-required Hub operation on a client with no session token and *)
(* no static hub token raises AuthenticationFailure before any HTTP call;   *)
(* a Hub operation that is not auth-required proceeds, in the same state,   *)
(* to its HTTP call with no Authorization header.                           *)
(***************************************************************************)
AuthRequiredOps ==
    {"hubDeleteTag", "hubGetWebhooks", "hubCreateWebhook", "hubDeleteWebhook",
     "hubGetBuildSettings", "hubGetBuildHistory", "hubTriggerBuild"}
AuthOptionalOps ==
    {"hubLogin", "hubGetRepositories", "hubGetRepository", "hubGetTags", "hubGetTag"}

NoHubToken(c) ==
    /\ clients[c].client.hubToken = ""
    /\ clients[c].client.credentials.hubToken = ""

C8_AuthRequiredBeforeHttp ==
    \A c \in DOMAIN clients :
        (last.call = c /\ clients[c].pending.op = last.op /\ NoHubToken(c))
            => /\ last.op \in AuthRequiredOps
                    => /\ Completed /\ last.out.threw
                       /\ Kind(last.out.err) = "AuthenticationFailure"
                       /\ last.out.requests = <<>>
                       /\ last.resp = NoResponse
               /\ (last.op \in AuthOptionalOps /\ clients[c].pending.phase = "waiting")
                    => /\ last.layer = "sent"
                       /\ Len(last.out.requests) = 1
                       /\ last.out.requests[1].authorization = <<>>
               /\ last.op \in AuthOptionalOps => last.layer = "sent" \/ last.resp # NoResponse

C8_Witness ==
    /\ last.layer = "tool" /\ last.op = "hubDeleteTag"
    /\ NoHubToken(last.call)
    /\ last.out.threw /\ last.out.err.name = "AuthenticationError"
    /\ last.out.requests = <<>>

(***************************************************************************)
(* C9: on one client instance, a Hub request carries the bearer of the      *)
(* session token whenever a login has stored one, even when the tenant      *)
(* also supplied a static hub token, and carries the static hub token when  *)
(* no session token is stored; a login that returns a token stores it (a   *)
(* login answered without a token stores none), and no step other than a    *)
(* login that returns changes the stored token.                             *)
(***************************************************************************)
C9_SessionTokenPreferred ==
    [][\A c \in DOMAIN clients :
          /\ (last'.layer = "sent" /\ last'.call = c /\ last'.op \notin EngineOps)
                => LET sent == last'.out.requests[1].authorization
                       session == clients[c].client.hubToken
                       static == clients[c].client.credentials.hubToken
                   IN  /\ session # "" => sent = <<"Bearer ", session>>
                       /\ (session = "" /\ static # "") => sent = <<"Bearer ", static>>
          /\ (last'.call = c /\ last'.op = "hubLogin" /\ last'.layer \in {"client", "tool"}
                /\ ~last'.out.threw)
                => clients'[c].client.hubToken =
                       (IF last'.out.val.t = "text" THEN last'.out.val.raw ELSE "")
          /\ ~(last'.call = c /\ last'.op = "hubLogin" /\ last'.layer \in {"client", "tool"}
                /\ ~last'.out.threw)
                => (clients[c].state = "session"
                        => clients'[c].client.hubToken = clients[c].client.hubToken)]_vars

C9_Witness ==
    /\ last.layer = "sent" /\ last.op = "hubGetWebhooks"
    /\ clients[last.call].client.hubToken = "sessB"
    /\ clients[last.call].client.credentials.hubToken = "tokA"
    /\ last.out.requests[1].authorization = <<"Bearer ", "sessB">>

(***************************************************************************)
(* C10: when the tenant supplied static hub credentials that make the Hub   *)
(* capability available (a hub token, or a hub username with a hub          *)
(* password), an auth-required Hub operation issued without a prior login   *)
(* proceeds to its HTTP call instead of raising the missing-credentials     *)
(* AuthenticationFailure.                                                   *)
(***************************************************************************)
C10_StaticCredentialsAuthenticate ==
    \A c \in DOMAIN clients :
        (/\ last.call = c /\ clients[c].pending.op = last.op
         /\ last.op \in AuthRequiredOps
         /\ clients[c].client.hubToken = ""
         /\ hasDockerHubCredentials(clients[c].client.credentials))
            => /\ last.layer = "sent" \/ last.resp # NoResponse
               /\ Len(last.out.requests) = 1
               /\ last.out.requests[1].authorization # <<>>

(***************************************************************************)
(* C11: capability gating.  In every constructed session a tool is          *)
(* registered only if the credential set it requires was available when     *)
(* the session was built: a tool that calls the engine only when the engine *)
(* host is present, a Hub tool only when hub credentials are present.       *)
(***************************************************************************)
\* docker_test_connection calls client.testConnection(), which pings the engine
NeedsEngine(tool) == tool \in EngineTools \cup {"docker_test_connection"}
NeedsHub(tool) == tool \in HubTools

Gated(c, tool) ==
    /\ NeedsEngine(tool) => hasDockerEngineCredentials(clients[c].client.credentials)
    /\ NeedsHub(tool) => hasDockerHubCredentials(clients[c].client.credentials)

C11_CapabilityGating ==
    \A c \in DOMAIN clients :
        clients[c].state = "session" => \A tool \in clients[c].tools : Gated(c, tool)

\* C11 as the code has it: the gating holds for every tool except the
\* connection test, which is registered in every session whatever its
\* credentials
C11_GatingExceptConnectionTest ==
    \A c \in DOMAIN clients :
        clients[c].state = "session"
            => /\ \A tool \in clients[c].tools \ {"docker_test_connection"} : Gated(c, tool)
               /\ "docker_test_connection" \in clients[c].tools

\* a session built from hub-only credentials: the Hub tools and the connection
\* test are reachable, no other engine tool is
C11_Witness ==
    \E c \in DOMAIN clients :
        /\ clients[c].state = "session"
        /\ ~hasDockerEngineCredentials(clients[c].client.credentials)
        /\ HubTools \subseteq clients[c].tools
        /\ clients[c].tools \cap EngineTools = {}
        /\ "docker_test_connection" \in clients[c].tools

(***************************************************************************)
(* C12: a client operation issues at most one upstream HTTP request per     *)
(* invocation and never re-attempts it: when the upstream answers with an   *)
(* error status (retryable or not) or the network fails, the operation      *)
(* raises with that single request as the only one it issued.               *)
(***************************************************************************)
UpstreamFailed(resp) ==
    /\ resp # NoResponse
    /\ resp.net \in {"fetchError", "fetchNonError"} \/ ~ok(resp.status)

C12_SingleRequest ==
    Completed
        => /\ Len(last.out.requests) <= 1
           /\ UpstreamFailed(last.resp)
                => /\ last.out.threw
                   /\ Len(last.out.requests) = 1
                   /\ last.out.requests = Issued(clients[last.call].client, last.op, last.args)

\* an operation answered 503 raised a retryable error after its one request
C12_Witness ==
    /\ Completed /\ last.resp.status = 503
    /\ last.out.threw /\ last.out.err.retryable
    /\ Len(last.out.requests) = 1

(***************************************************************************)
(* Specification of registry authentication: one engine session, whose      *)
(* tenant may carry registry credentials, pulls, pushes and creates or      *)
(* updates services with and without caller-supplied credentials            *)
(***************************************************************************)
RegRequests ==
    {[host |-> H(TcpPrefix \o <<"h">>), apiVersion |-> NoHeader, hubToken |-> NoHeader,
      hubUsername |-> NoHeader, hubPassword |-> NoHeader,
      registryUsername |-> ru, registryPassword |-> rp] :
        ru \in {NoHostHeader, H(<<"r", "u">>)}, rp \in {NoHostHeader, H(<<"r", "p">>)}}
RegAuths ==
    {NoAuth,
     AuthConfig(NoField, NoField),
     AuthConfig(Field(<<"a", "b">>), NoField),
     AuthConfig(Field(<<"u">>), Field(<<"p", "w">>))}
PullFields == {NoField, Field(<<>>), Field(<<"u">>)}
PushFields == {Field(<<"u">>), Field(<<"p", "w">>)}
RegResponses ==
    {Response("ok", 200, "text", TextBody, Absent),
     Response("ok", 200, "json", IdBody, Absent),
     Response("ok", 204, "none", EmptyBody, Absent),
     Response("ok", 500, "json", EmptyBody, Absent),
     Response("fetchError", 0, "none", EmptyBody, Absent)}

NextReg ==
    \E c \in DOMAIN clients :
        \/ \E request \in RegRequests : McpPost(c, request)
        \/ \E op \in RegistryOps, auth \in RegAuths : ClientOpAuth(c, op, auth)
        \/ \E username \in PullFields, password \in PullFields : ToolPull(c, username, password)
        \/ \E username \in PushFields, password \in PushFields : ToolPush(c, username, password)
        \/ \E resp \in RegResponses : Upstream(c, resp)
        \/ Deliver(c)

SpecReg == Init /\ [][NextReg]_vars

(***************************************************************************)
(* C13: the registry-auth header of pull, push, service-create and          *)
(* service-update is present on the upstream request if and only if the     *)
(* caller supplied credentials on that same invocation, and then decodes    *)
(* (base64) to the JSON text of the supplied auth object; it depends on     *)
(* nothing else, neither on an earlier operation of the client that         *)
(* supplied credentials nor on the tenant's registry credentials.           *)
(***************************************************************************)
\* base64 decoding: four characters become three bytes, less the padding
Base64Index(ch) == IF ch = "=" THEN 0 ELSE (CHOOSE i \in 0..63 : Base64Chars[i + 1] = ch)

atob(chars) ==
    LET groups == Len(chars) \div 4
        pads == Cardinality({j \in 1..Len(chars) : chars[j] = "="})
        word(g) == Base64Index(chars[4 * g - 3]) * 262144 + Base64Index(chars[4 * g - 2]) * 4096
                   + Base64Index(chars[4 * g - 1]) * 64 + Base64Index(chars[4 * g])
        byte(i) ==
            LET g == (i + 2) \div 3
                k == i - 3 * (g - 1)
            IN  CASE k = 1 -> word(g) \div 65536
                  [] k = 2 -> (word(g) \div 256) % 256
                  [] k = 3 -> word(g) % 256
    IN  [i \in 1..(3 * groups - pads) |-> byte(i)]

CharCodes(chars) == [i \in 1..Len(chars) |-> CharCode(chars[i])]

\* what the caller of the invocation supplied: the auth object given to the
\* client operation, or the username and password given to the tool
SuppliedAuth(c) ==
    LET args == clients[c].pending.args
    IN  IF clients[c].pending.layer = "client" THEN args.auth
        ELSE IF args.username.def /\ args.username.chars # <<>>
                /\ args.password.def /\ args.password.chars # <<>>
        THEN AuthConfig(args.username, args.password)
        ELSE NoAuth

C13_RegistryAuthPerInvocation ==
    \A c \in DOMAIN clients :
        (/\ last.call = c /\ last.op \in RegistryOps
         /\ clients[c].pending.op = last.op
         /\ last.out.requests # <<>>)
            => LET sent == last.out.requests[1].registryAuth
                   auth == SuppliedAuth(c)
               IN  /\ Len(last.out.requests) = 1
                   /\ (sent # <<>>) <=> auth.present
                   /\ auth.present => atob(sent) = CharCodes(stringifyAuth(auth))

\* a pull that supplies no credentials sends no registry-auth header, on a
\* client whose tenant carries registry credentials and that already sent a
\* request with credentials
C13_Witness ==
    /\ last.layer = "sent" /\ last.op = "pullImage"
    /\ clients[last.call].authSent
    /\ clients[last.call].client.credentials.registryUsername # <<>>
    /\ ~clients[last.call].pending.args.auth.present
    /\ last.out.requests[1].registryAuth = <<>>

\* a request carrying the credentials supplied on the invocation
C13_WitnessSupplied ==
    /\ last.layer = "sent" /\ last.op \in RegistryOps
    /\ clients[last.call].pending.layer = "tool"
    /\ last.out.requests[1].registryAuth = btoa(stringifyAuth(AuthConfig(Field(<<"u">>), Field(<<"u">>))))

(***************************************************************************)
(* Specification of the status-to-error translation: a status and a body    *)
(* are drawn, parseDockerError is applied to them, and applied again        *)
(***************************************************************************)
MinStatus == 100
MaxStatus == 599
ParseStatuses == MinStatus..MaxStatus
ParseBodies ==
    {EmptyBody, TextBody, NullBody, MessageBody, ErrorBody, EmptyObjectBody, ArrayBody(0)}

Parsed(stage, status, body) ==
    Step(stage, 0, "parseDockerError", Response("ok", status, "json", body, Absent),
         [NoOutcome EXCEPT !.err = IF stage = "input" THEN NoError
                                   ELSE parseDockerError(status, body)],
         NotATool, 0)

InitParse ==
    /\ clients = [c \in {1} |-> NoSession]
    /\ \E status \in ParseStatuses, body \in ParseBodies : last = Parsed("input", status, body)

Parse ==
    /\ last.layer = "input"
    /\ last' = Parsed("parsed", last.resp.status, last.resp.body)
    /\ UNCHANGED clients

ParseAgain ==
    /\ last.layer = "parsed"
    /\ last' = Parsed("reparsed", last.resp.status, last.resp.body)
    /\ UNCHANGED clients

NextParse == Parse \/ ParseAgain

SpecParse == InitParse /\ [][NextParse]_vars

(***************************************************************************)
(* C14: the status-to-error translation is total and deterministic: for     *)
(* every status and every body (valid JSON, invalid JSON, empty) it returns *)
(* a classified error, the same one when applied again to the same input,   *)
(* and for 400, 401, 403, 404, 409, 500 and 503 that error has the kind and *)
(* the retryable flag of the error table.                                   *)
(***************************************************************************)
ErrorKinds ==
    {"ValidationFailure", "AuthenticationFailure", "NotFound", "Conflict",
     "RateLimitExceeded", "ConnectionFailure", "InternalUpstreamError", "GenericBackendError"}
TabledStatuses == {400, 401, 403, 404, 409, 500, 503}

C14_TranslationTotalDeterministic ==
    [][/\ last'.layer \in {"parsed", "reparsed"}
            => /\ last'.out.err.isApiError
               /\ Kind(last'.out.err) \in ErrorKinds
               /\ last'.resp.status \in TabledStatuses
                    => /\ Kind(last'.out.err) = TableKind(last'.resp.status)
                       /\ last'.out.err.retryable = TableRetryable(Kind(last'.out.err))
       /\ last'.layer = "reparsed"
            => /\ last.layer = "parsed" /\ last'.resp = last.resp
               /\ last'.out.err = last.out.err]_vars

\* a 409 with a body that is not JSON, translated twice
C14_Witness ==
    /\ last.layer = "reparsed" /\ last.resp.status = 409 /\ last.resp.body = TextBody
    /\ Kind(last.out.err) = "Conflict" /\ ~last.out.err.retryable

(***************************************************************************)
(* C15: every upstream 5xx status other than 503 (500, 501, 502, 504, ...)  *)
(* is translated to InternalUpstreamError and is marked retryable.          *)
(***************************************************************************)
C15_Every5xxInternal ==
    (/\ last.layer = "parsed"
     /\ last.resp.status >= 500 /\ last.resp.status <= 599 /\ last.resp.status # 503)
        => /\ Kind(last.out.err) = "InternalUpstreamError"
           /\ last.out.err.retryable

(***************************************************************************)
(* C16: a network-level failure while reaching either backend (the HTTP     *)
(* exchange throws instead of returning a response) is raised to the caller *)
(* as ConnectionFailure, which is marked retryable.                         *)
(***************************************************************************)
NetworkFailed(resp) == resp.net \in {"fetchError", "fetchNonError"}

C16_NetworkFailureIsConnectionFailure ==
    (Completed /\ NetworkFailed(last.resp))
        => /\ last.out.threw
           /\ last.out.err.isApiError
           /\ Kind(last.out.err) = "ConnectionFailure"
           /\ last.out.err.retryable

\* fetch rejected during a Hub operation
C16_Witness ==
    /\ Completed /\ last.op = "hubGetTags" /\ last.resp.net = "fetchError"
    /\ last.out.threw /\ last.out.err.name = "ConnectionError"
    /\ Len(last.out.requests) = 1

(***************************************************************************)
(* C17: the failure envelope's message is 'Error: ' followed by the error   *)
(* message, with the suffix ' (retryable)' if and only if the error is a    *)
(* classified error whose retryable flag is true; its details carry the     *)
(* error code and the HTTP status for every classified error,               *)
(* retryAfterSeconds exactly for RateLimitExceeded, and the field-detail    *)
(* mapping exactly for ValidationFailure.  (The value written for           *)
(* retryAfterSeconds is the error's own, null when that is NaN.)            *)
(***************************************************************************)
C17_FailureEnvelope ==
    (last.layer = "tool" /\ last.out.threw)
        => LET err == last.out.err
               text == last.tool.response.content[1].text
               suffixed == err.isApiError /\ err.retryable
           IN  /\ last.tool.response.isError
               /\ text.error = <<"Error: ">> \o err.message
                               \o (IF suffixed THEN <<" (retryable)">> ELSE <<>>)
               /\ err.isApiError
                    => /\ {"code", "statusCode"} \subseteq text.details.keys
                       /\ text.details.code = err.code
                       /\ text.details.statusCode = [t |-> "number", val |-> err.statusCode.val]
               /\ "retryAfterSeconds" \in text.details.keys
                    <=> Kind(err) = "RateLimitExceeded"
               /\ Kind(err) = "RateLimitExceeded"
                    => text.details.retryAfterSeconds = jsonNumber(err.retryAfterSeconds)
               /\ "details" \in text.details.keys <=> Kind(err) = "ValidationFailure"

\* a rate-limited Hub tool call: the envelope carries the suffix and the
\* retry-after seconds
C17_Witness ==
    /\ last.layer = "tool" /\ last.out.threw
    /\ Kind(last.out.err) = "RateLimitExceeded"
    /\ last.tool.response.content[1].text.error
         = <<"Error: ", "Docker Hub rate limit exceeded", " (retryable)">>
    /\ last.tool.response.content[1].text.details.retryAfterSeconds = [t |-> "number", val |-> 3]

(***************************************************************************)
(* Specification of credential resolution: one inbound call whose headers   *)
(* are drawn from every combination of host, hub token, hub username and    *)
(* hub password; the session (if any) is built from them                    *)
(***************************************************************************)
MaxPieces == 3
HostPieces ==
    {TcpPrefix, HttpPrefix, HttpsPrefix, <<"t", "c", "p", ":", "/">>, <<"h">>, <<"s">>, <<"/">>}

RECURSIVE Flatten(_)
Flatten(pieces) == IF pieces = <<>> THEN <<>> ELSE Head(pieces) \o Flatten(Tail(pieces))

HostStrings == {Flatten(pieces) : pieces \in SeqsUpTo(HostPieces, MaxPieces)}

CredRequests ==
    [host : {NoHostHeader} \cup {H(host) : host \in HostStrings},
     apiVersion : {NoHeader},
     hubToken : {NoHeader, H(""), H("tokA")},
     hubUsername : {NoHeader, H(""), H("u")},
     hubPassword : {NoHeader, H(""), H("p")},
     registryUsername : {NoHostHeader}, registryPassword : {NoHostHeader}]

NextCred == \E c \in DOMAIN clients : \E request \in CredRequests : McpPost(c, request)

SpecCred == Init /\ [][NextCred]_vars

(***************************************************************************)
(* C18: engine host resolution.  'tcp://X' resolves to 'http://X'; a host   *)
(* starting with 'http://' or 'https://' resolves to itself; any other      *)
(* non-empty host s resolves to 'http://s'; the empty or absent host        *)
(* resolves to the empty base URL.  Exactly one of the four cases applies   *)
(* to every host.                                                           *)
(***************************************************************************)
HasPrefix(s, prefix) == \E rest \in {SubSeq(s, Len(prefix) + 1, Len(s))} : s = prefix \o rest
HostCase(s) ==
    {k \in {"empty", "tcp", "http", "other"} :
        \/ k = "empty" /\ s = <<>>
        \/ k = "tcp" /\ HasPrefix(s, TcpPrefix)
        \/ k = "http" /\ (HasPrefix(s, HttpPrefix) \/ HasPrefix(s, HttpsPrefix))
        \/ k = "other" /\ s # <<>> /\ ~HasPrefix(s, TcpPrefix)
                       /\ ~HasPrefix(s, HttpPrefix) /\ ~HasPrefix(s, HttpsPrefix)}

C18_HostResolution ==
    \A c \in DOMAIN clients :
        clients[c].state = "session"
            => LET host == clients[c].client.credentials.dockerHost
                   url == clients[c].client.dockerBaseUrl
               IN  /\ Cardinality(HostCase(host)) = 1
                   /\ "empty" \in HostCase(host) => url = <<>>
                   /\ "tcp" \in HostCase(host) => HttpPrefix \o SubSeq(host, 7, Len(host)) = url
                   /\ "http" \in HostCase(host) => url = host
                   /\ "other" \in HostCase(host) => url = HttpPrefix \o host

\* an https host kept as it is
C18_Witness ==
    \E c \in DOMAIN clients :
        /\ clients[c].state = "session"
        /\ clients[c].client.credentials.dockerHost = HttpsPrefix \o <<"h">>
        /\ clients[c].client.dockerBaseUrl = HttpsPrefix \o <<"h">>

(***************************************************************************)
(* C19: for every combination of present, absent or empty host, hub token,  *)
(* hub username and hub password, the engine-availability predicate is      *)
(* true iff the host is non-empty, and the hub-availability predicate is    *)
(* true iff a hub token is present or both hub username and hub password    *)
(* are present; each depends on its own headers only, and the resolver      *)
(* yields a value (never an exception) for every combination: the request   *)
(* is refused exactly when both are false, and the session's tools are the  *)
(* ones the two predicates allow.                                           *)
(***************************************************************************)
Given(header, empty) == header.present /\ header.value # empty

EngineGiven(request) == Given(request.host, <<>>)
HubGiven(request) ==
    \/ Given(request.hubToken, "")
    \/ (Given(request.hubUsername, "") /\ Given(request.hubPassword, ""))

C19_AvailabilityPredicates ==
    \A c \in DOMAIN clients :
        (last.layer = "fetch" /\ last.call = c)
            => LET credentials == parseTenantCredentials(last.request)
               IN  /\ hasDockerEngineCredentials(credentials) \in BOOLEAN
                   /\ hasDockerHubCredentials(credentials) \in BOOLEAN
                   /\ hasDockerEngineCredentials(credentials) <=> EngineGiven(last.request)
                   /\ hasDockerHubCredentials(credentials) <=> HubGiven(last.request)
                   /\ clients[c].state = "rejected"
                        <=> (~EngineGiven(last.request) /\ ~HubGiven(last.request))
                   /\ clients[c].state = "session"
                        => /\ clients[c].client.credentials = credentials
                           /\ EngineTools \subseteq clients[c].tools <=> EngineGiven(last.request)
                           /\ HubTools \subseteq clients[c].tools <=> HubGiven(last.request)

\* hub username and password without a token or a host: the Hub is available,
\* the engine is not
C19_Witness ==
    /\ last.layer = "fetch"
    /\ ~last.request.host.present /\ ~last.request.hubToken.present
    /\ last.request.hubUsername = H("u") /\ last.request.hubPassword = H("p")
    /\ clients[last.call].state = "session"
    /\ HubTools \subseteq clients[last.call].tools
    /\ clients[last.call].tools \cap EngineTools = {}

(***************************************************************************)
(* C20: response decoding of a successful (2xx) upstream response, on both  *)
(* backends: status 204 yields a void result; a response whose content      *)
(* type is JSON is parsed as JSON; any other response is returned as raw    *)
(* text.  Stated on the operations that return the decoded value unchanged. *)
(***************************************************************************)
DirectOps == {"ping", "pullImage", "hubGetBuildSettings"}

C20_ResponseDecoding ==
    (/\ Completed /\ last.op \in DirectOps
     /\ last.resp.net = "ok" /\ ok(last.resp.status))
        => /\ last.resp.status = 204
                => ~last.out.threw /\ last.out.val = Undefined
           /\ (last.resp.status # 204 /\ last.resp.ctype = "json"
                 /\ last.resp.body.json.t # "invalid")
                => ~last.out.threw /\ last.out.val = JsonValue(last.resp.body.json)
           /\ (last.resp.status # 204 /\ last.resp.ctype # "json")
                => ~last.out.threw /\ last.out.val = TextVal(last.resp.body.raw)

\* the same statement on the engine backend alone, where it holds
C20_EngineResponseDecoding ==
    last.op \in EngineOps => C20_ResponseDecoding

(***************************************************************************)
(* Specification of Hub pagination: one Hub session lists repositories,     *)
(* tags and build history at several page numbers                           *)
(***************************************************************************)
MaxPage == 11
PagedOps == {"hubGetRepositories", "hubGetTags", "hubGetBuildHistory"}
PageArgs == {Undef} \cup {Num(p) : p \in 1..MaxPage}
PageRequests == {[NoRequest EXCEPT !.hubToken = H("tokA")]}
PageResponses ==
    UNION {{Response("ok", 200, "json", PageBodyOf(n, next, count), Absent) :
                next \in BOOLEAN, count \in {Undef, Num(n), Num(n + 7)}} : n \in 0..MaxItems}
    \cup {Response("ok", 200, "json", EmptyObjectBody, Absent),
          Response("ok", 404, "json", EmptyBody, Absent)}

NextPage ==
    \E c \in DOMAIN clients :
        \/ \E request \in PageRequests : McpPost(c, request)
        \/ \E layer \in {"client", "tool"}, op \in PagedOps, page \in PageArgs :
              PagedOp(c, layer, op, page)
        \/ \E resp \in PageResponses : Upstream(c, resp)
        \/ Deliver(c)

SpecPage == Init /\ [][NextPage]_vars

(***************************************************************************)
(* C21: every paginated Hub listing result (repositories, tags, build       *)
(* history) has hasMore true iff the upstream response carried a next-page  *)
(* URL; nextCursor defined iff hasMore, and then the decimal string of the  *)
(* requested page number plus one; count equal to the number of items       *)
(* returned; total equal to the upstream count.                             *)
(***************************************************************************)
\* the number a string of decimal digits denotes
RECURSIVE DecimalValue(_)
DecimalValue(chars) ==
    IF chars = <<>> THEN 0
    ELSE 10 * DecimalValue(SubSeq(chars, 1, Len(chars) - 1))
         + (CHOOSE d \in 0..9 : Numerals[d + 1] = chars[Len(chars)])

IsDecimalOf(chars, n) ==
    /\ chars # <<>>
    /\ \A i \in 1..Len(chars) : \E d \in 0..9 : Numerals[d + 1] = chars[i]
    /\ Len(chars) > 1 => chars[1] # "0"
    /\ DecimalValue(chars) = n

C21_PaginatedResult ==
    (Completed /\ last.op \in PagedOps /\ ~last.out.threw)
        => LET result == last.out.val.page
               upstream == last.resp.body.json
               requested == IF last.args.page.def THEN last.args.page.val ELSE 1
           IN  /\ result.hasMore <=> upstream.next
               /\ result.nextCursor.def <=> result.hasMore
               /\ result.hasMore => IsDecimalOf(result.nextCursor.chars, requested + 1)
               /\ result.count = result.items /\ result.items = upstream.n
               /\ result.total = upstream.count

\* page 9 of the tags, with a next page: the cursor is "10"
C21_Witness ==
    /\ Completed /\ last.op = "hubGetTags" /\ ~last.out.threw
    /\ last.args.page = Num(9)
    /\ last.out.val.page.hasMore
    /\ last.out.val.page.nextCursor.chars = <<"1", "0">>
    /\ last.out.val.page.total = Num(MaxItems + 7)

(***************************************************************************)
(* client.ts: entity mappers.  An upstream record is a                      *)
(* Record<string, unknown>: any of its fields may be absent.  A field value *)
(* is a string (Field), a number (Num), a boolean (Bool), a list (List), a  *)
(* mapping (Map, its key/value pairs) or an opaque object (Obj); the absent *)
(* value of each kind is undefined                                          *)
(***************************************************************************)
NoBool == [def |-> FALSE, val |-> FALSE]
Bool(b) == [def |-> TRUE, val |-> b]
NoList == [def |-> FALSE, items |-> <<>>]
List(items) == [def |-> TRUE, items |-> items]
NoMap == [def |-> FALSE, pairs |-> {}]
Map(pairs) == [def |-> TRUE, pairs |-> pairs]
NoObj == [def |-> FALSE, obj |-> ""]
Obj(name) == [def |-> TRUE, obj |-> name]

\* value || fallback, for a value that is truthy whenever it is defined
\* (arrays and objects)
orElse(value, fallback) == IF value.def THEN value ELSE fallback

\* array.map(f)
MapSeq(f(_), s) == [i \in 1..Len(s) |-> f(s[i])]

mapPort(p) ==
    [ip |-> p.IP, privatePort |-> p.PrivatePort, publicPort |-> p.PublicPort, type |-> p.Type]

mapMount(m) ==
    [type |-> m.Type, name |-> m.Name, source |-> m.Source, destination |-> m.Destination,
     driver |-> m.Driver, mode |-> m.Mode, rw |-> m.RW, propagation |-> m.Propagation]

\* a mapper that also drops the leading slash of the names
mapContainer_stripSlash(c) ==
    [id |-> c.Id,
     names |-> List(MapSeq(LAMBDA n : IF n # <<>> /\ Head(n) = "/" THEN Tail(n) ELSE n,
                           orElse(c.Names, List(<<>>)).items)),
     image |-> c.Image, imageId |-> c.ImageID, command |-> c.Command,
     created |-> c.Created, state |-> c.State, status |-> c.Status,
     ports |-> List(MapSeq(mapPort, orElse(c.Ports, List(<<>>)).items)),
     labels |-> orElse(c.Labels, Map({})),
     sizeRw |-> c.SizeRw, sizeRootFs |-> c.SizeRootFs,
     mounts |-> List(MapSeq(mapMount, orElse(c.Mounts, List(<<>>)).items))]

mapContainer(c) ==
    [id |-> c.Id,
     names |-> orElse(c.Names, List(<<>>)),
     image |-> c.Image, imageId |-> c.ImageID, command |-> c.Command,
     created |-> c.Created, state |-> c.State, status |-> c.Status,
     ports |-> List(MapSeq(mapPort, orElse(c.Ports, List(<<>>)).items)),
     labels |-> orElse(c.Labels, Map({})),
     sizeRw |-> c.SizeRw, sizeRootFs |-> c.SizeRootFs,
     mounts |-> List(MapSeq(mapMount, orElse(c.Mounts, List(<<>>)).items))]

mapImage(i) ==
    [id |-> i.Id, parentId |-> i.ParentId,
     repoTags |-> orElse(i.RepoTags, List(<<>>)),
     repoDigests |-> orElse(i.RepoDigests, List(<<>>)),
     created |-> i.Created, size |-> i.Size, sharedSize |-> i.SharedSize,
     virtualSize |-> i.VirtualSize,
     labels |-> orElse(i.Labels, Map({})),
     containers |-> i.Containers]

mapNetwork(n) ==
    [name |-> n.Name, id |-> n.Id, created |-> n.Created, scope |-> n.Scope,
     driver |-> n.Driver, enableIPv6 |-> n.EnableIPv6, ipam |-> n.IPAM,
     internal |-> n.Internal, attachable |-> n.Attachable, ingress |-> n.Ingress,
     containers |-> orElse(n.Containers, Map({})),
     options |-> orElse(n.Options, Map({})),
     labels |-> orElse(n.Labels, Map({}))]

mapVolume(v) ==
    [name |-> v.Name, driver |-> v.Driver, mountpoint |-> v.Mountpoint,
     createdAt |-> v.CreatedAt, status |-> v.Status,
     labels |-> orElse(v.Labels, Map({})),
     scope |-> v.Scope,
     options |-> orElse(v.Options, Map({})),
     usageData |-> v.UsageData]

mapHubRepository(r) ==
    [user |-> r.user, name |-> r.name, namespace |-> r.namespace,
     repositoryType |-> r.repository_type, status |-> r.status,
     description |-> r.description, isPrivate |-> r.is_private,
     isAutomated |-> r.is_automated, canEdit |-> r.can_edit,
     starCount |-> r.star_count, pullCount |-> r.pull_count,
     lastUpdated |-> r.last_updated, isMigrated |-> r.is_migrated,
     collaboratorCount |-> r.collaborator_count, affiliation |-> r.affiliation,
     hubUser |-> r.hub_user]

mapHubTagImage(i) ==
    [architecture |-> i.architecture, features |-> i.features, variant |-> i.variant,
     digest |-> i.digest, os |-> i.os, osFeatures |-> i.os_features,
     osVersion |-> i.os_version, size |-> i.size, status |-> i.status,
     lastPulled |-> i.last_pulled, lastPushed |-> i.last_pushed]

mapHubTag(t) ==
    [creator |-> t.creator, id |-> t.id, imageId |-> t.image_id,
     images |-> List(MapSeq(mapHubTagImage, orElse(t.images, List(<<>>)).items)),
     lastUpdated |-> t.last_updated, lastUpdater |-> t.last_updater,
     lastUpdaterUsername |-> t.last_updater_username, name |-> t.name,
     repository |-> t.repository, fullSize |-> t.full_size, v2 |-> t.v2,
     tagStatus |-> t.tag_status, tagLastPushed |-> t.tag_last_pushed,
     tagLastPulled |-> t.tag_last_pulled]

\* the mapper of each mapped entity
mapEntity(entity, record) ==
    CASE entity = "Container" -> mapContainer(record)
      [] entity = "Image" -> mapImage(record)
      [] entity = "Network" -> mapNetwork(record)
      [] entity = "Volume" -> mapVolume(record)
      [] entity = "HubRepository" -> mapHubRepository(record)
      [] entity = "HubTag" -> mapHubTag(record)

\* types/entities.ts: the fields declared optional (?) in the normalized model
OptionalFields(entity) ==
    CASE entity = "Container" -> {"sizeRw", "sizeRootFs", "networkSettings"}
      [] entity = "Port" -> {"ip", "publicPort"}
      [] entity = "Mount" -> {"name", "driver"}
      [] entity = "Image" -> {}
      [] entity = "Network" -> {}
      [] entity = "Volume" -> {"createdAt", "status", "usageData"}
      [] entity = "HubRepository" -> {"affiliation"}
      [] entity = "HubTag" -> {"imageId", "tagLastPulled"}
      [] entity = "HubTagImage" -> {"variant", "osVersion", "lastPulled"}

(***************************************************************************)
(* Specification of the entity mappers: an upstream record of one of the    *)
(* six mapped entities is drawn, with any subset of the fields that an      *)
(* upstream may leave out absent, and its mapper is applied                 *)
(***************************************************************************)
IdChars == <<"a", "b", "c", "d", "e", "f", "0", "1", "2", "3", "4", "5", "6", "7">>
ShaPrefix == <<"s", "h", "a", "2", "5", "6", ":">>

FullPort ==
    [IP |-> Field(<<"0.0.0.0">>), PrivatePort |-> Num(80), PublicPort |-> Num(8080),
     Type |-> Field(<<"tcp">>)]
FullMount ==
    [Type |-> Field(<<"volume">>), Name |-> Field(<<"data">>), Source |-> Field(<<"/src">>),
     Destination |-> Field(<<"/dst">>), Driver |-> Field(<<"local">>),
     Mode |-> Field(<<"z">>), RW |-> Bool(TRUE), Propagation |-> Field(<<"rprivate">>)]
FullContainer ==
    [Id |-> Field(IdChars), Names |-> List(<<<<"/", "web">>>>), Image |-> Field(<<"nginx">>),
     ImageID |-> Field(ShaPrefix \o IdChars), Command |-> Field(<<"nginx -g">>),
     Created |-> Num(1000000), State |-> Field(<<"running">>),
     Status |-> Field(<<"Up 2 hours">>), Ports |-> List(<<FullPort>>),
     Labels |-> Map({<<"k", "v">>}), SizeRw |-> Num(1), SizeRootFs |-> Num(2),
     Mounts |-> List(<<FullMount>>)]
FullImage ==
    [Id |-> Field(ShaPrefix \o IdChars), ParentId |-> Field(<<>>),
     RepoTags |-> List(<<<<"nginx:latest">>>>), RepoDigests |-> List(<<<<"nginx@sha256:ab">>>>),
     Created |-> Num(1000000), Size |-> Num(1536), SharedSize |-> Num(0),
     VirtualSize |-> Num(1536), Labels |-> Map({<<"k", "v">>}), Containers |-> Num(1)]
FullNetwork ==
    [Name |-> Field(<<"bridge">>), Id |-> Field(IdChars), Created |-> Field(<<"2024-01-01">>),
     Scope |-> Field(<<"local">>), Driver |-> Field(<<"bridge">>), EnableIPv6 |-> Bool(TRUE),
     IPAM |-> Obj("IPAM"), Internal |-> Bool(FALSE), Attachable |-> Bool(TRUE),
     Ingress |-> Bool(FALSE), Containers |-> Map({<<"c1", "endpoint">>}),
     Options |-> Map({<<"o", "1">>}), Labels |-> Map({<<"k", "v">>})]
FullVolume ==
    [Name |-> Field(<<"data">>), Driver |-> Field(<<"local">>),
     Mountpoint |-> Field(<<"/var/lib/docker/volumes/data">>),
     CreatedAt |-> Field(<<"2024-01-01">>), Status |-> Map({<<"s", "ok">>}),
     Labels |-> Map({<<"k", "v">>}), Scope |-> Field(<<"local">>),
     Options |-> Map({<<"o", "1">>}), UsageData |-> Obj("UsageData")]
FullHubRepository ==
    [user |-> Field(<<"u">>), name |-> Field(<<"repo">>), namespace |-> Field(<<"ns">>),
     repository_type |-> Field(<<"image">>), status |-> Num(1),
     description |-> Field(<<"d">>), is_private |-> Bool(TRUE), is_automated |-> Bool(FALSE),
     can_edit |-> Bool(TRUE), star_count |-> Num(3), pull_count |-> Num(7),
     last_updated |-> Field(<<"2024-01-01">>), is_migrated |-> Bool(FALSE),
     collaborator_count |-> Num(0), affiliation |-> Field(<<"owner">>),
     hub_user |-> Field(<<"u">>)]
FullHubTagImage ==
    [architecture |-> Field(<<"amd64">>), features |-> Field(<<>>),
     variant |-> Field(<<"v8">>), digest |-> Field(<<"sha256:ab">>), os |-> Field(<<"linux">>),
     os_features |-> Field(<<>>), os_version |-> Field(<<"10">>), size |-> Num(1536),
     status |-> Field(<<"active">>), last_pulled |-> Field(<<"2024-01-02">>),
     last_pushed |-> Field(<<"2024-01-01">>)]
FullHubTag ==
    [creator |-> Num(1), id |-> Num(2), image_id |-> Field(<<"img">>),
     images |-> List(<<FullHubTagImage>>), last_updated |-> Field(<<"2024-01-01">>),
     last_updater |-> Num(1), last_updater_username |-> Field(<<"u">>),
     name |-> Field(<<"latest">>), repository |-> Num(5), full_size |-> Num(1536),
     v2 |-> Bool(TRUE), tag_status |-> Field(<<"active">>),
     tag_last_pushed |-> Field(<<"2024-01-01">>), tag_last_pulled |-> Field(<<"2024-01-02">>)]

\* the undefined value of the kind of v
undefinedOf(v) ==
    CASE "chars" \in DOMAIN v -> NoField
      [] "nan" \in DOMAIN v -> Undef
      [] "val" \in DOMAIN v -> NoBool
      [] "items" \in DOMAIN v -> NoList
      [] "pairs" \in DOMAIN v -> NoMap
      [] "obj" \in DOMAIN v -> NoObj

\* the record without the given fields
Drop(record, fields) ==
    [f \in DOMAIN record |-> IF f \in fields THEN undefinedOf(record[f]) ELSE record[f]]

\* the upstream fields that may be absent, with the normalized field each is
\* mapped to: those of list, mapping or boolean type and those the
\* normalized model declares optional
Absentable(entity) ==
    CASE entity = "Container" ->
            {<<"Names", "names">>, <<"Ports", "ports">>, <<"Labels", "labels">>,
             <<"Mounts", "mounts">>, <<"SizeRw", "sizeRw">>, <<"SizeRootFs", "sizeRootFs">>}
      [] entity = "Port" -> {<<"IP", "ip">>, <<"PublicPort", "publicPort">>}
      [] entity = "Mount" -> {<<"Name", "name">>, <<"Driver", "driver">>, <<"RW", "rw">>}
      [] entity = "Image" ->
            {<<"RepoTags", "repoTags">>, <<"RepoDigests", "repoDigests">>,
             <<"Labels", "labels">>}
      [] entity = "Network" ->
            {<<"EnableIPv6", "enableIPv6">>, <<"Internal", "internal">>,
             <<"Attachable", "attachable">>, <<"Ingress", "ingress">>,
             <<"Containers", "containers">>, <<"Options", "options">>,
             <<"Labels", "labels">>}
      [] entity = "Volume" ->
            {<<"CreatedAt", "createdAt">>, <<"Status", "status">>, <<"Labels", "labels">>,
             <<"Options", "options">>, <<"UsageData", "usageData">>}
      [] entity = "HubRepository" ->
            {<<"is_private", "isPrivate">>, <<"is_automated", "isAutomated">>,
             <<"can_edit", "canEdit">>, <<"is_migrated", "isMigrated">>,
             <<"affiliation", "affiliation">>}
      [] entity = "HubTag" ->
            {<<"image_id", "imageId">>, <<"images", "images">>, <<"v2", "v2">>,
             <<"tag_last_pulled", "tagLastPulled">>}
      [] entity = "HubTagImage" ->
            {<<"variant", "variant">>, <<"os_version", "osVersion">>,
             <<"last_pulled", "lastPulled">>}

Variants(entity, full) ==
    {Drop(full, {pair[1] : pair \in absent}) : absent \in SUBSET Absentable(entity)}

MappedEntities == {"Container", "Image", "Network", "Volume", "HubRepository", "HubTag"}

UpstreamRecords(entity) ==
    CASE entity = "Container" ->
            UNION {Variants("Container", [FullContainer EXCEPT !.Ports = List(<<p>>),
                                                                !.Mounts = List(<<m>>)]) :
                       p \in Variants("Port", FullPort), m \in Variants("Mount", FullMount)}
      [] entity = "Image" -> Variants("Image", FullImage)
      [] entity = "Network" -> Variants("Network", FullNetwork)
      [] entity = "Volume" -> Variants("Volume", FullVolume)
      [] entity = "HubRepository" -> Variants("HubRepository", FullHubRepository)
      [] entity = "HubTag" ->
            UNION {Variants("HubTag", [FullHubTag EXCEPT !.images = List(<<i>>)]) :
                       i \in Variants("HubTagImage", FullHubTagImage)}

Mapping(stage, entity, record) ==
    [layer |-> stage, op |-> "mapEntity", entity |-> entity, record |-> record,
     out |-> IF stage = "input" THEN record ELSE mapEntity(entity, record)]

InitMap ==
    /\ clients = [c \in {1} |-> NoSession]
    /\ \E entity \in MappedEntities :
         \E record \in UpstreamRecords(entity) : last = Mapping("input", entity, record)

MapRecord ==
    /\ last.layer = "input"
    /\ last' = Mapping("mapped", last.entity, last.record)
    /\ UNCHANGED clients

NextMap == MapRecord

SpecMap == InitMap /\ [][NextMap]_vars

(***************************************************************************)
(* C24: for every mapped entity (Container, Image, Network, Volume, Hub     *)
(* repository, Hub tag) and every upstream record with any subset of its    *)
(* optional fields absent, the normalized entity carries the documented     *)
(* default (empty list, empty mapping, or false) for each absent field, so  *)
(* that no field not declared optional in the normalized model is           *)
(* undefined, in the entity and in its nested ports, mounts and tag images  *)
(***************************************************************************)
DocumentedDefault(v) ==
    CASE "items" \in DOMAIN v -> List(<<>>)
      [] "pairs" \in DOMAIN v -> Map({})
      [] "val" \in DOMAIN v /\ "nan" \notin DOMAIN v -> Bool(FALSE)
      [] OTHER -> v

DefaultsSubstituted(entity, record, out) ==
    \A pair \in Absentable(entity) :
        (~record[pair[1]].def /\ pair[2] \notin OptionalFields(entity))
            => out[pair[2]] = DocumentedDefault(record[pair[1]])

NoneUndefined(entity, out) ==
    \A f \in DOMAIN out \ OptionalFields(entity) : out[f].def

NestedOf(entity) ==
    CASE entity = "Container" -> {<<"Ports", "ports", "Port">>, <<"Mounts", "mounts", "Mount">>}
      [] entity = "HubTag" -> {<<"images", "images", "HubTagImage">>}
      [] OTHER -> {}

C24_MapperDefaults ==
    last.layer = "mapped"
        => /\ DefaultsSubstituted(last.entity, last.record, last.out)
           /\ NoneUndefined(last.entity, last.out)
           /\ \A nested \in NestedOf(last.entity) :
                \A i \in 1..Len(last.record[nested[1]].items) :
                    /\ Len(last.out[nested[2]].items) = Len(last.record[nested[1]].items)
                    /\ DefaultsSubstituted(nested[3], last.record[nested[1]].items[i],
                                           last.out[nested[2]].items[i])
                    /\ NoneUndefined(nested[3], last.out[nested[2]].items[i])

\* the same statement for the absent lists and mappings only: each is
\* replaced by the empty list or the empty mapping
C24_ListAndMappingDefaults ==
    last.layer = "mapped"
        => \A pair \in Absentable(last.entity) :
               (~last.record[pair[1]].def
                /\ pair[2] \notin OptionalFields(last.entity)
                /\ ("items" \in DOMAIN last.record[pair[1]]
                    \/ "pairs" \in DOMAIN last.record[pair[1]]))
                   => last.out[pair[2]] = DocumentedDefault(last.record[pair[1]])

(***************************************************************************)
(* utils/formatters.ts: the text of a successful response.  A text is the   *)
(* sequence of its lines (joined by '\n'), a line the sequence of its       *)
(* pieces; an entity-type tag is the sequence of its first character and    *)
(* the rest                                                                 *)
(***************************************************************************)
ContainersTag == <<"c", "ontainers">>
ImagesTag == <<"i", "mages">>
NetworksTag == <<"n", "etworks">>
VolumesTag == <<"v", "olumes">>
ServicesTag == <<"s", "ervices">>
NodesTag == <<"n", "odes">>
TasksTag == <<"t", "asks">>
SecretsTag == <<"s", "ecrets">>
ConfigsTag == <<"c", "onfigs">>
PluginsTag == <<"p", "lugins">>
RepositoriesTag == <<"r", "epositories">>

\* str.substring(start, end)
substring(str, start, end) == SubSeq(str, start + 1, IF end < Len(str) THEN end ELSE Len(str))

\* parts.join(sep)
RECURSIVE join(_, _)
join(parts, sep) ==
    IF parts = <<>> THEN <<>>
    ELSE IF Len(parts) = 1 THEN parts[1]
    ELSE parts[1] \o <<sep>> \o join(Tail(parts), sep)

\* text || fallback: the empty string is falsy
orText(text, fallback) == IF text = <<>> THEN fallback ELSE text

\* `${value}` of a string or a number
strText(value) == IF value.def THEN value.chars ELSE <<"undefined">>
numText(value) ==
    IF ~value.def THEN <<"undefined">>
    ELSE IF value.nan THEN <<"NaN">>
    ELSE decimalString(value.val)

toUpperCase(ch) ==
    IF \E i \in 1..26 : Letters[i] = ch
    THEN Upper[CHOOSE i \in 1..26 : Letters[i] = ch]
    ELSE ch

capitalize(str) == IF str = <<>> THEN <<>> ELSE <<toUpperCase(str[1])>> \o Tail(str)

RECURSIVE floorLog1024(_)
floorLog1024(bytes) == IF bytes < 1024 THEN 0 ELSE 1 + floorLog1024(bytes \div 1024)

RECURSIVE pow1024(_)
pow1024(i) == IF i = 0 THEN 1 ELSE 1024 * pow1024(i - 1)

\* the value is rounded to one decimal place; parseFloat drops a trailing .0
formatBytes(bytes) ==
    IF bytes = 0 THEN <<"0 B">>
    ELSE LET i == floorLog1024(bytes)
             k == pow1024(i)
             tenths == (bytes * 10 + k \div 2) \div k
         IN  decimalString(tenths \div 10)
             \o (IF tenths % 10 = 0 THEN <<>> ELSE <<".", Numerals[(tenths % 10) + 1]>>)
             \o <<" ", <<"B", "KB", "MB", "GB", "TB">>[i + 1]>>

twoDigits(n) == IF n < 10 THEN <<"0">> \o decimalString(n) ELSE decimalString(n)

\* date.toISOString().split('T')[0] of the day that many days after
\* 1970-01-01
isoDate(days) ==
    LET z == days + 719468
        era == z \div 146097
        doe == z - era * 146097
        yoe == (doe - doe \div 1460 + doe \div 36524 - doe \div 146096) \div 365
        doy == doe - (365 * yoe + yoe \div 4 - yoe \div 100)
        mp == (5 * doy + 2) \div 153
        d == doy - (153 * mp + 2) \div 5 + 1
        m == IF mp < 10 THEN mp + 3 ELSE mp - 9
        y == yoe + era * 400 + (IF m <= 2 THEN 1 ELSE 0)
    IN  decimalString(y) \o <<"-">> \o twoDigits(m) \o <<"-">> \o twoDigits(d)

\* timestamp in seconds; now is new Date().getTime(), in milliseconds
formatTimestamp(timestamp, now) ==
    LET diff == now - timestamp * 1000
    IN  IF diff < 60000 THEN <<"Just now">>
        ELSE IF diff < 3600000 THEN decimalString(diff \div 60000) \o <<" minutes ago">>
        ELSE IF diff < 86400000 THEN decimalString(diff \div 3600000) \o <<" hours ago">>
        ELSE IF diff < 604800000 THEN decimalString(diff \div 86400000) \o <<" days ago">>
        ELSE isoDate(timestamp \div 86400)

headerRow(columns) == <<"| ">> \o join([i \in 1..Len(columns) |-> <<columns[i]>>], " | ") \o <<" |">>
separatorRow(columns) == <<"|">> \o join([i \in 1..Len(columns) |-> <<"---">>], "|") \o <<"|">>
tableRow(cells) == <<"| ">> \o join(cells, " | ") \o <<" |">>
table(columns, rows) == <<headerRow(columns), separatorRow(columns)>> \o rows

stripSlash(n) == IF n # <<>> /\ Head(n) = "/" THEN Tail(n) ELSE n

portText(p) ==
    IF p.publicPort.def /\ p.publicPort.val # 0
    THEN numText(p.publicPort) \o <<":">> \o numText(p.privatePort) \o <<"/">> \o strText(p.type)
    ELSE numText(p.privatePort) \o <<"/">> \o strText(p.type)

formatContainersTable(containers) ==
    table(<<"ID", "Names", "Image", "Status", "State", "Ports">>,
          MapSeq(LAMBDA c : tableRow(<<substring(c.id.chars, 0, 12),
                                       orText(join(MapSeq(stripSlash, c.names.items), ", "),
                                              <<"-">>),
                                       strText(c.image), strText(c.status), strText(c.state),
                                       orText(join(MapSeq(portText, c.ports.items), ", "),
                                              <<"-">>)>>),
                 containers))

formatImagesTable(images, now) ==
    table(<<"ID", "Repository:Tag", "Size", "Created">>,
          MapSeq(LAMBDA image : tableRow(<<substring(image.id.chars, 7, 19),
                                           orText(join(image.repoTags.items, ", "), <<"<none>">>),
                                           formatBytes(image.size.val),
                                           formatTimestamp(image.created.val, now)>>),
                 images))

formatNetworksTable(networks) ==
    table(<<"ID", "Name", "Driver", "Scope", "IPv6">>,
          MapSeq(LAMBDA network : tableRow(<<substring(network.id.chars, 0, 12),
                                             strText(network.name), strText(network.driver),
                                             strText(network.scope),
                                             IF network.enableIPv6.def /\ network.enableIPv6.val
                                             THEN <<"Yes">> ELSE <<"No">>>>),
                 networks))

formatVolumesTable(volumes) ==
    table(<<"Name", "Driver", "Scope", "Mountpoint">>,
          MapSeq(LAMBDA volume : tableRow(<<strText(volume.name), strText(volume.driver),
                                            strText(volume.scope), strText(volume.mountpoint)>>),
                 volumes))

\* a service: replicas is spec.mode.replicated.replicas (undefined in global
\* mode), image is spec.taskTemplate.containerSpec.image
formatServicesTable(services) ==
    table(<<"ID", "Name", "Mode", "Replicas", "Image">>,
          MapSeq(LAMBDA service : tableRow(<<substring(service.id.chars, 0, 12),
                                             strText(service.name),
                                             IF service.replicas.def
                                             THEN <<"replicated (">> \o numText(service.replicas)
                                                  \o <<")">>
                                             ELSE <<"global">>,
                                             <<"-">>,
                                             orText(IF service.image.def THEN service.image.chars
                                                    ELSE <<>>, <<"-">>)>>),
                 services))

formatNodesTable(nodes) ==
    table(<<"ID", "Hostname", "Status", "Availability", "Role", "Manager">>,
          MapSeq(LAMBDA node : tableRow(<<substring(node.id.chars, 0, 12),
                                          strText(node.hostname), strText(node.state),
                                          strText(node.availability), strText(node.role),
                                          IF node.managerStatus.def THEN <<"Yes">>
                                          ELSE <<"No">>>>),
                 nodes))

formatTasksTable(tasks) ==
    table(<<"ID", "Service", "Node", "State", "Desired">>,
          MapSeq(LAMBDA task : tableRow(<<substring(task.id.chars, 0, 12),
                                          substring(task.serviceId.chars, 0, 12),
                                          orText(IF task.nodeId.def
                                                 THEN substring(task.nodeId.chars, 0, 12)
                                                 ELSE <<>>, <<"-">>),
                                          strText(task.state), strText(task.desiredState)>>),
                 tasks))

formatSecretsTable(secrets) ==
    table(<<"ID", "Name", "Created", "Updated">>,
          MapSeq(LAMBDA secret : tableRow(<<substring(secret.id.chars, 0, 12),
                                            strText(secret.name), strText(secret.createdAt),
                                            strText(secret.updatedAt)>>),
                 secrets))

formatConfigsTable(configs) ==
    table(<<"ID", "Name", "Created", "Updated">>,
          MapSeq(LAMBDA config : tableRow(<<substring(config.id.chars, 0, 12),
                                            strText(config.name), strText(config.createdAt),
                                            strText(config.updatedAt)>>),
                 configs))

formatPluginsTable(plugins) ==
    table(<<"Name", "Enabled", "Description">>,
          MapSeq(LAMBDA plugin : tableRow(<<strText(plugin.name),
                                            IF plugin.enabled.def /\ plugin.enabled.val
                                            THEN <<"Yes">> ELSE <<"No">>,
                                            substring(plugin.description.chars, 0, 50)>>),
                 plugins))

\* an object of any other type is the sequence of its members, each a pair
\* of a key and a string value (undefined when the value is null or absent)
objectKeys(record) == [i \in 1..Len(record) |-> record[i][1]]
member(record, key) ==
    IF \E i \in 1..Len(record) : record[i][1] = key
    THEN record[CHOOSE i \in 1..Len(record) : record[i][1] = key][2]
    ELSE NoField

formatGenericTable(items) ==
    IF Len(items) = 0 THEN <<<<"_No items_">>>>
    ELSE LET keys == SubSeq(objectKeys(items[1]), 1,
                            IF Len(items[1]) < 5 THEN Len(items[1]) ELSE 5)
         IN  <<<<"| ">> \o join([i \in 1..Len(keys) |-> <<keys[i]>>], " | ") \o <<" |">>,
               <<"|">> \o join([i \in 1..Len(keys) |-> <<"---">>], "|") \o <<"|">>>>
             \o MapSeq(LAMBDA record :
                           tableRow([i \in 1..Len(keys) |->
                                        substring(IF member(record, keys[i]).def
                                                  THEN member(record, keys[i]).chars
                                                  ELSE <<"-">>, 0, 30)]),
                       items)

formatArrayAsMarkdown(data, entityType, now) ==
    CASE entityType = ContainersTag -> formatContainersTable(data)
      [] entityType = ImagesTag -> formatImagesTable(data, now)
      [] entityType = NetworksTag -> formatNetworksTable(data)
      [] entityType = VolumesTag -> formatVolumesTable(data)
      [] OTHER -> formatGenericTable(data)

\* a result value: shape is "paginated" (an object with an items array),
\* "array" or "object"
Data(shape, items, count, total, hasMore, nextCursor) ==
    [shape |-> shape, items |-> items, count |-> count, total |-> total,
     hasMore |-> hasMore, nextCursor |-> nextCursor]

isPaginatedResponse(data) == data.shape = "paginated"

\* the grave accent (U+0060), which a string of this notation cannot hold
Backquote == "U+0060"

formatPaginatedAsMarkdown(data, entityType, now) ==
    <<<<"## ">> \o capitalize(entityType), <<>>>>
    \o <<IF data.total.def
         THEN <<"**Total:** ">> \o numText(data.total) \o <<" | **Showing:** ">>
              \o numText(data.count)
         ELSE <<"**Showing:** ">> \o numText(data.count)>>
    \o (IF data.hasMore
        THEN <<<<"**More available:** Yes (cursor: ", Backquote>> \o strText(data.nextCursor)
               \o <<Backquote, ")">>>>
        ELSE <<>>)
    \o <<<<>>>>
    \o (IF Len(data.items) = 0 THEN <<<<"_No items found._">>>>
        ELSE CASE entityType = ContainersTag -> formatContainersTable(data.items)
               [] entityType = ImagesTag -> formatImagesTable(data.items, now)
               [] entityType = NetworksTag -> formatNetworksTable(data.items)
               [] entityType = VolumesTag -> formatVolumesTable(data.items)
               [] entityType = ServicesTag -> formatServicesTable(data.items)
               [] entityType = NodesTag -> formatNodesTable(data.items)
               [] entityType = TasksTag -> formatTasksTable(data.items)
               [] entityType = SecretsTag -> formatSecretsTable(data.items)
               [] entityType = ConfigsTag -> formatConfigsTable(data.items)
               [] entityType = PluginsTag -> formatPluginsTable(data.items)
               [] OTHER -> formatGenericTable(data.items))

\* key.replace(/([A-Z])/g, ' $1')
RECURSIVE spaceBeforeUpper(_)
spaceBeforeUpper(key) ==
    IF key = <<>> THEN <<>>
    ELSE (IF \E i \in 1..26 : Upper[i] = Head(key) THEN <<" ", Head(key)>> ELSE <<Head(key)>>)
         \o spaceBeforeUpper(Tail(key))

RECURSIVE trimStart(_)
trimStart(str) == IF str # <<>> /\ Head(str) = " " THEN trimStart(Tail(str)) ELSE str

RECURSIVE trimEnd(_)
trimEnd(str) ==
    IF str # <<>> /\ str[Len(str)] = " " THEN trimEnd(SubSeq(str, 1, Len(str) - 1)) ELSE str

\* camelCase to Title Case
formatKey(key) == trimEnd(trimStart(capitalize(spaceBeforeUpper(key))))

\* entityType.replace(/s$/, ''): the tags drawn end in 's'
singular(entityType) ==
    IF entityType = RepositoriesTag THEN <<"r", "epositorie">>
    ELSE entityType

\* the members of the object, one line each; null and undefined members are
\* skipped
\* the members' keys are sequences of characters
formatObjectAsMarkdown(data, entityType) ==
    <<<<"## ">> \o capitalize(singular(entityType)), <<>>>>
    \o MapSeq(LAMBDA i : <<"**">> \o formatKey(data[i][1]) \o <<":** ">> \o data[i][2].chars,
              SelectSeq([i \in 1..Len(data) |-> i], LAMBDA i : data[i][2].def))

formatAsMarkdown(data, entityType, now) ==
    IF isPaginatedResponse(data) THEN formatPaginatedAsMarkdown(data, entityType, now)
    ELSE IF data.shape = "array" THEN formatArrayAsMarkdown(data.items, entityType, now)
    ELSE formatObjectAsMarkdown(data.items, entityType)

\* JSON.stringify(data, null, 2): the value with its undefined members left out
stringifyData(data) ==
    [members |-> IF data.shape = "paginated"
                 THEN {"items", "count", "hasMore"}
                      \cup (IF data.total.def THEN {"total"} ELSE {})
                      \cup (IF data.nextCursor.def THEN {"nextCursor"} ELSE {})
                 ELSE {},
     value |-> data]

NoJson == [members |-> {}, value |-> Data("none", <<>>, Undef, Undef, FALSE, NoField)]

formatResponse(data, format, entityType, now) ==
    IF format = "markdown"
    THEN ToolResponse([lines |-> formatAsMarkdown(data, entityType, now), json |-> NoJson], FALSE)
    ELSE ToolResponse([lines |-> <<>>, json |-> stringifyData(data)], FALSE)

(***************************************************************************)
(* Specification of the response formatter: a result value, a format and    *)
(* an entity-type tag are drawn; formatResponse is applied to them, the     *)
(* clock advances, and formatResponse is applied to them again              *)
(***************************************************************************)
MaxRows == 2
MaxTicks == 2
\* the clock at the first call, in milliseconds: 1970-01-21T00:00:00Z
Now0 == 20 * 86400 * 1000
Elapsed == {1000, 60000}

EntityTypes ==
    {ContainersTag, ImagesTag, NetworksTag, VolumesTag, ServicesTag, NodesTag, TasksTag,
     SecretsTag, ConfigsTag, PluginsTag, RepositoriesTag}

LongValue == [i \in 1..31 |-> "x"]

ItemsOf(entityType) ==
    CASE entityType = ContainersTag ->
            {mapContainer(FullContainer), mapContainer(Drop(FullContainer, {"Names", "Ports"})),
             mapContainer([FullContainer EXCEPT
                             !.Names = List(<<<<"/", "a">>, <<"b">>>>),
                             !.Ports = List(<<Drop(FullPort, {"PublicPort"}), FullPort>>)])}
      [] entityType = ImagesTag ->
            {mapImage([FullImage EXCEPT !.Created = Num((Now0 \div 1000) - age)]) :
                 age \in {59, 3599, 86399, 8 * 86400}}
            \cup {mapImage([Drop(FullImage, {"RepoTags"}) EXCEPT !.Size = Num(0)])}
      [] entityType = NetworksTag ->
            {mapNetwork(FullNetwork), mapNetwork(Drop(FullNetwork, {"EnableIPv6"}))}
      [] entityType = VolumesTag ->
            {mapVolume(FullVolume), mapVolume([FullVolume EXCEPT !.Name = Field(<<"logs">>)])}
      [] entityType = ServicesTag ->
            {[id |-> Field(IdChars), name |-> Field(<<"web">>), replicas |-> replicas,
              image |-> image] :
                 replicas \in {Undef, Num(3)}, image \in {NoField, Field(<<"nginx">>)}}
      [] entityType = NodesTag ->
            {[id |-> Field(IdChars), hostname |-> Field(<<"node1">>),
              state |-> Field(<<"ready">>), availability |-> Field(<<"active">>),
              role |-> Field(<<"manager">>), managerStatus |-> managerStatus] :
                 managerStatus \in {NoObj, Obj("ManagerStatus")}}
      [] entityType = TasksTag ->
            {[id |-> Field(IdChars), serviceId |-> Field(IdChars), nodeId |-> nodeId,
              state |-> Field(<<"running">>), desiredState |-> Field(<<"running">>)] :
                 nodeId \in {NoField, Field(IdChars)}}
      [] entityType \in {SecretsTag, ConfigsTag} ->
            {[id |-> Field(IdChars), name |-> Field(<<name>>),
              createdAt |-> Field(<<"2024-01-01">>), updatedAt |-> Field(<<"2024-01-02">>)] :
                 name \in {"one", "two"}}
      [] entityType = PluginsTag ->
            {[name |-> Field(<<"plugin">>), enabled |-> Bool(enabled),
              description |-> Field(<<"d">>)] : enabled \in BOOLEAN}
      [] OTHER ->
            {<<<<"name", Field(<<"r", "e", "p", "o">>)>>, <<"namespace", Field(<<"n", "s">>)>>,
               <<"description", description>>, <<"status", Field(<<"1">>)>>,
               <<"starCount", Field(<<"3">>)>>, <<"pullCount", Field(<<"7">>)>>>> :
                 description \in {NoField, Field(LongValue)}}

\* a single object: its keys are sequences of characters
ObjectValues ==
    {<<<<<<"n", "a", "m", "e">>, Field(<<"repo">>)>>,
       <<<<"s", "t", "a", "r", "C", "o", "u", "n", "t">>, Field(<<"3">>)>>,
       <<<<"I", "d">>, id>>>> : id \in {NoField, Field(IdChars)}}

\* the items of a plain list: formatArrayAsMarkdown reads those of every type
\* but containers, images, networks and volumes through their keys
ArrayItemsOf(entityType) ==
    IF entityType \in {ContainersTag, ImagesTag, NetworksTag, VolumesTag}
    THEN ItemsOf(entityType)
    ELSE ItemsOf(RepositoriesTag)

FmtData(entityType) ==
    UNION {{Data("paginated", items, Num(Len(items)), total, hasMore,
                 IF hasMore THEN Field(<<"2">>) ELSE NoField) :
                total \in {Undef, Num(Len(items) + 7)}, hasMore \in BOOLEAN} :
               items \in SeqsUpTo(ItemsOf(entityType), MaxRows)}
    \cup {Data("array", items, Undef, Undef, FALSE, NoField) :
              items \in SeqsUpTo(ArrayItemsOf(entityType), MaxRows)}
    \cup {Data("object", object, Undef, Undef, FALSE, NoField) : object \in ObjectValues}

Formatting(stage, data, format, entityType, now, ticks, first, response) ==
    [layer |-> stage, op |-> "formatResponse", data |-> data, format |-> format,
     entityType |-> entityType, now |-> now, ticks |-> ticks, first |-> first,
     response |-> response]

InitFmt ==
    /\ clients = [c \in {1} |-> NoSession]
    /\ \E entityType \in EntityTypes, format \in {"json", "markdown"} :
         \E data \in FmtData(entityType) :
            last = Formatting("input", data, format, entityType, Now0, 0,
                              NotATool.response, NotATool.response)

\* formatResponse(data, format, entityType)
Format ==
    /\ last.layer = "input"
    /\ LET response == formatResponse(last.data, last.format, last.entityType, last.now)
       IN  last' = [last EXCEPT !.layer = "formatted", !.first = response,
                                !.response = response]
    /\ UNCHANGED clients

\* time passes between the two calls
Tick ==
    /\ last.layer = "formatted"
    /\ last.ticks < MaxTicks
    /\ \E elapsed \in Elapsed :
         last' = [last EXCEPT !.now = @ + elapsed, !.ticks = @ + 1]
    /\ UNCHANGED clients

\* formatResponse(data, format, entityType), called again with the same
\* arguments
FormatAgain ==
    /\ last.layer = "formatted"
    /\ last' = [last EXCEPT
                  !.layer = "reformatted",
                  !.response = formatResponse(last.data, last.format, last.entityType,
                                              last.now)]
    /\ UNCHANGED clients

NextFmt == Format \/ Tick \/ FormatAgain

SpecFmt == InitFmt /\ [][NextFmt]_vars

(***************************************************************************)
(* C22: tabular formatting of an empty item list, for every entity-type     *)
(* tag and whether the value is a paginated result or a plain list,         *)
(* renders the literal line '_No items found._' and never renders a table   *)
(* header row                                                               *)
(***************************************************************************)
IsTableRow(line) == line # <<>> /\ line[1] \in {"| ", "|"}

RendersNoItemsFound(lines) ==
    /\ \E i \in 1..Len(lines) : lines[i] = <<"_No items found._">>
    /\ \A i \in 1..Len(lines) : ~IsTableRow(lines[i])

C22_EmptyListRendering ==
    (/\ last.layer = "formatted" /\ last.format = "markdown"
     /\ last.data.shape \in {"paginated", "array"}
     /\ last.data.items = <<>>)
        => RendersNoItemsFound(last.response.content[1].text.lines)

\* the same statement for paginated results only
C22_PaginatedEmptyListRendering ==
    (/\ last.layer = "formatted" /\ last.format = "markdown"
     /\ last.data.shape = "paginated"
     /\ last.data.items = <<>>)
        => RendersNoItemsFound(last.response.content[1].text.lines)

(***************************************************************************)
(* C23: formatting is idempotent: formatting the same result value twice    *)
(* with the same format and entity-type tag yields identical text, for both *)
(* formats and every entity type, whenever the two calls are made           *)
(***************************************************************************)
C23_FormattingIdempotent ==
    last.layer = "reformatted" => last.response = last.first

\* the same statement for every value but a tabular image list
C23_IdempotentExceptImageTable ==
    (/\ last.layer = "reformatted"
     /\ ~(/\ last.format = "markdown" /\ last.entityType = ImagesTag
          /\ last.data.shape \in {"paginated", "array"}))
        => last.response = last.first

(***************************************************************************)
(* Specification of the container listing: sessions are opened with an      *)
(* engine host, listContainers is called with every combination of its      *)
(* arguments against an upstream array of container records, and the        *)
(* docker_list_containers tool formats the result                           *)
(***************************************************************************)
MaxRecords == 2
ListRequests == {[NoRequest EXCEPT !.host = H(TcpPrefix \o <<"h">>)]}
RawContainers ==
    {FullContainer,
     [FullContainer EXCEPT !.Id = Field(Tail(IdChars)), !.Names = List(<<<<"/", "db">>, <<"/", "web", "/", "db">>>>),
                           !.Image = Field(<<"postgres">>), !.State = Field(<<"exited">>),
                           !.Ports = List(<<Drop(FullPort, {"IP", "PublicPort"}), FullPort>>)],
     Drop(FullContainer, {"Names", "Ports"})}
ListFilters == {NoFilters, Filters("status", "running")}
ListResponses(n) ==
    {Response("ok", 200, "json", ArrayBody(n), Absent),
     Response("ok", 500, "json", MessageBody, Absent)}

Listing(stage, call, all, filters, records, resp, out, containers, format, response) ==
    [layer |-> stage, call |-> call, op |-> "listContainers", all |-> all,
     filters |-> filters, records |-> records, resp |-> resp, out |-> out,
     containers |-> containers, format |-> format, response |-> response]

\* client.listContainers(all, filters), the upstream answering with the
\* records (or with a failure)
ListContainers(c, all, filters, records, resp) ==
    /\ clients[c].state = "session"
    /\ last.layer # "listed"
    /\ LET out == listContainers(clients[c].client, all, filters, resp)
       IN  last' = Listing("listed", c, all, filters, records, resp, out,
                           IF out.threw THEN <<>> ELSE MapSeq(mapContainer, records),
                           "", NotATool.response)
    /\ UNCHANGED clients

\* docker_list_containers: the containers wrapped in { items, count,
\* hasMore: false } and formatted (the tool passes no filters)
FormatContainers(format) ==
    /\ last.layer = "listed"
    /\ IF last.out.threw
       THEN last' = [last EXCEPT !.layer = "failed", !.format = format,
                                 !.response = formatError(last.out.err)]
       ELSE last' = [last EXCEPT
                       !.layer = "formatted", !.format = format,
                       !.response = formatResponse(
                           Data("paginated", last.containers, Num(Len(last.containers)),
                                Undef, FALSE, NoField),
                           format, ContainersTag, Now0)]
    /\ UNCHANGED clients

NextList ==
    \E c \in DOMAIN clients :
        \/ \E request \in ListRequests : McpPost(c, request)
        \/ \E all \in BOOLEAN, filters \in ListFilters :
             \E records \in SeqsUpTo(RawContainers, MaxRecords) :
                \E resp \in ListResponses(Len(records)) :
                    ListContainers(c, all, filters, records, resp)
        \/ \E format \in {"json", "markdown"} : FormatContainers(format)

SpecList == Init /\ [][NextList]_vars

(***************************************************************************)
(* C25: a list-containers call with all=false and no filters issues exactly *)
(* one GET to '/containers/json?all=false' (with no filters parameter), and *)
(* an upstream array of n records is mapped to exactly n Container entities *)
(* in the same order, each preserving id, image, state, ports and names,    *)
(* the names keeping their leading slash: the slash is dropped only in the  *)
(* names column of the tabular format                                       *)
(***************************************************************************)
WithoutSlash(name) == IF name # <<>> /\ name[1] = "/" THEN SubSeq(name, 2, Len(name)) ELSE name

RECURSIVE CommaSeparated(_)
CommaSeparated(names) ==
    IF names = <<>> THEN <<>>
    ELSE IF Len(names) = 1 THEN WithoutSlash(names[1])
    ELSE WithoutSlash(names[1]) \o <<", ">> \o CommaSeparated(Tail(names))

SamePort(port, upstream) ==
    /\ port.ip = upstream.IP /\ port.privatePort = upstream.PrivatePort
    /\ port.publicPort = upstream.PublicPort /\ port.type = upstream.Type

C25_ListContainers ==
    last.layer \in {"listed", "formatted"}
        => /\ (~last.all /\ ~last.filters.def)
                => /\ Len(last.out.requests) = 1
                   /\ last.out.requests[1].method = "GET"
                   /\ last.out.requests[1].endpoint = <<"/containers/json?all=", "false">>
           /\ ~last.out.threw
                => /\ Len(last.containers) = Len(last.records)
                   /\ \A i \in 1..Len(last.records) :
                        LET container == last.containers[i]
                            record == last.records[i]
                        IN  /\ container.id = record.Id
                            /\ container.image = record.Image
                            /\ container.state = record.State
                            /\ container.names.def
                            /\ container.names.items = record.Names.items
                            /\ Len(container.ports.items) = Len(record.Ports.items)
                            /\ \A j \in 1..Len(record.Ports.items) :
                                 SamePort(container.ports.items[j], record.Ports.items[j])
           /\ (last.layer = "formatted" /\ last.format = "json")
                => last.response.content[1].text.json.value.items = last.containers
           /\ (last.layer = "formatted" /\ last.format = "markdown")
                => \A i \in 1..Len(last.records) :
                     LET line == last.response.content[1].text.lines[6 + i]
                         names == CommaSeparated(last.records[i].Names.items)
                         start == <<"| ">> \o SubSeq(last.records[i].Id.chars, 1, 12) \o <<" | ">>
                                  \o (IF names = <<>> THEN <<"-">> ELSE names) \o <<" | ">>
                     IN  SubSeq(line, 1, Len(start)) = start

\* two different containers listed with all=false and no filters and
\* formatted as a table: the entity keeps '/web', the table prints 'web'
C25_Witness ==
    /\ last.layer = "formatted" /\ last.format = "markdown"
    /\ ~last.all /\ ~last.filters.def
    /\ Len(last.records) = 2 /\ last.records[1] # last.records[2]
    /\ last.containers[1].names.items = <<<<"/", "web">>>>
    /\ SubSeq(last.response.content[1].text.lines[7], 14, 16) = <<" | ", "web", " | ">>

HostlessRequests ==
    {[NoRequest EXCEPT !.hubToken = H("tokA")],
     [NoRequest EXCEPT !.host = H(<<>>), !.hubToken = H("tokA")],
     [NoRequest EXCEPT !.host = H(TcpPrefix \o <<"h">>)]}
HostlessAuths ==
    {NoAuth, AuthConfig(Field(<<"u">>), Field(<<"p", "w">>)),
     AuthConfig(Field(<<"u">>), Field(<<"p", Euro>>))}
HostlessResponses ==
    {Response("ok", 200, "json", IdBody, Absent),
     Response("ok", 200, "json", ArrayBody(1), Absent),
     Response("ok", 204, "none", EmptyBody, Absent),
     Response("ok", 500, "json", MessageBody, Absent),
     Response("fetchError", 0, "none", EmptyBody, Absent)}

NextHostless ==
    \E c \in DOMAIN clients :
        \/ \E request \in HostlessRequests : McpPost(c, request)
        \/ \E op \in EngineOps \ RegistryOps : ClientOp(c, op)
        \/ \E op \in RegistryOps, auth \in HostlessAuths : ClientOpAuth(c, op, auth)
        \/ \E resp \in HostlessResponses : Upstream(c, resp)
        \/ Deliver(c)

SpecHostless == Init /\ [][NextHostless]_vars

(***************************************************************************)
(* C27: when the engine host is empty or absent, every engine operation     *)
(* raises ConnectionFailure without issuing any HTTP request, regardless of *)
(* its arguments                                                            *)
(***************************************************************************)
HostlessEngineCall ==
    /\ last.layer = "client"
    /\ last.op \in EngineOps \cup RegistryOps
    /\ clients[last.call].client.credentials.dockerHost = <<>>

C27_HostlessConnectionFailure ==
    HostlessEngineCall
        => /\ last.out.threw
           /\ Kind(last.out.err) = "ConnectionFailure"
           /\ last.out.requests = <<>>

\* the same statement for arguments that the operation can encode: every
\* engine operation but one given registry credentials outside Latin-1
C27_HostlessEncodableArguments ==
    (HostlessEngineCall
     /\ ~(last.args.auth.present
          /\ \E i \in 1..Len(last.args.auth.password.chars) :
               last.args.auth.password.chars[i] = Euro))
        => /\ last.out.threw
           /\ Kind(last.out.err) = "ConnectionFailure"
           /\ last.out.requests = <<>>

\* without a host no engine operation issues an HTTP request, whatever it
\* raises
C27_HostlessNoRequest ==
    HostlessEngineCall => last.out.threw /\ last.out.requests = <<>>

(***************************************************************************)
(* C28: the Hub session token of a client instance is changed only by a     *)
(* login that succeeds: it is unset at construction, a login that succeeds  *)
(* sets it to the token the Hub returned, a login that fails leaves it      *)
(* unchanged, and no other operation, successful or failing, modifies it or *)
(* the tenant credentials of the client                                     *)
(***************************************************************************)
C28_TokenChangedOnlyByLogin ==
    [][\A c \in DOMAIN clients :
          LET before == clients[c]
              after == clients'[c]
              login == /\ last'.call = c /\ last'.op = "hubLogin"
                       /\ last'.layer \in {"client", "tool"}
          IN  /\ (before.state # "session" /\ after.state = "session")
                    => after.client.hubToken = ""
              /\ before.state = "session"
                    => /\ after.state = "session"
                       /\ after.client.credentials = before.client.credentials
                       /\ after.client.dockerBaseUrl = before.client.dockerBaseUrl
                       /\ (login /\ ~last'.out.threw)
                            => after.client.hubToken = last'.resp.body.json.token
                       /\ (login /\ last'.out.threw)
                            => after.client.hubToken = before.client.hubToken
                       /\ ~login => after.client.hubToken = before.client.hubToken]_vars

\* a login that fails on a client that holds the token of an earlier login
C28_Witness ==
    /\ last.op = "hubLogin" /\ last.layer = "client" /\ last.out.threw
    /\ last.resp.net = "ok" /\ last.resp.status = 401
    /\ clients[last.call].client.hubToken = "sessA"

(***************************************************************************)
(* Specification of the docker_exec tool: sessions are opened with an       *)
(* engine host, the tool is invoked, and the upstream answers the create    *)
(* request and then the start request                                       *)
(***************************************************************************)
ExecHosts == {TcpPrefix \o <<"h">>, HttpPrefix \o <<"h">>, HttpsPrefix \o <<"h">>, <<"h">>}
ExecRequests ==
    {[NoRequest EXCEPT !.hubToken = H("tokA")]}
    \cup {[NoRequest EXCEPT !.host = H(host), !.hubToken = token] :
              host \in ExecHosts, token \in {NoHeader, H("tokA")}}
ExecResponses ==
    {Response("ok", 201, "json", IdBody, Absent),
     Response("ok", 201, "json", Body("{Id}", JObject("", "", "", "exec2")), Absent),
     Response("ok", 200, "json", EmptyObjectBody, Absent),
     Response("ok", 200, "text", TextBody, Absent),
     Response("ok", 200, "text", EmptyBody, Absent),
     Response("ok", 204, "none", EmptyBody, Absent),
     Response("ok", 404, "json", MessageBody, Absent),
     Response("ok", 500, "json", EmptyBody, Absent),
     Response("fetchError", 0, "none", EmptyBody, Absent)}

ExecArgs(stage, id) == [NoArgs EXCEPT !.stage = stage, !.id = id]

\* the handler returns: its envelope goes to the caller
ExecFinished(c, args, resp, out) ==
    /\ last' = [Step("tool", c, "docker_exec", resp, out, execHandler(out), 0)
                   EXCEPT !.args = args]
    /\ clients' = [clients EXCEPT
                     ![c].pending = [phase |-> "done", layer |-> "exec", op |-> "docker_exec",
                                     args |-> args]]

\* docker_exec is invoked: client.createExec issues its request
ExecInvoke(c) ==
    /\ clients[c].state = "session"
    /\ clients[c].pending = NoPending
    /\ "createExec" \in clients[c].tools
    /\ LET issued == Issued(clients[c].client, "createExec", NoArgs)
       IN  IF issued = <<>>
           THEN ExecFinished(c, ExecArgs("create", ""), NoResponse,
                             createExec(clients[c].client, NoResponse))
           ELSE /\ clients' = [clients EXCEPT
                                 ![c].pending = [phase |-> "waiting", layer |-> "exec",
                                                 op |-> "createExec",
                                                 args |-> ExecArgs("create", "")]]
                /\ last' = [Step("sent", c, "createExec", NoResponse,
                                 Return(Undefined, issued), NotATool, 0)
                               EXCEPT !.args = ExecArgs("create", "")]

\* the upstream answers the outstanding request of a docker_exec invocation:
\* after the create request the handler either fails or issues the start
\* request; after the start request it returns
ExecUpstream(c, resp) ==
    /\ clients[c].pending.phase = "waiting"
    /\ clients[c].pending.layer = "exec"
    /\ LET client == clients[c].client
           createRequest == Issued(client, "createExec", NoArgs)
       IN  IF clients[c].pending.op = "createExec"
           THEN LET created == createExec(client, resp)
                    args == ExecArgs("start", idText(created.val))
                IN  IF created.threw
                    THEN ExecFinished(c, clients[c].pending.args, resp, created)
                    ELSE /\ clients' = [clients EXCEPT
                                          ![c].pending = [phase |-> "waiting", layer |-> "exec",
                                                          op |-> "startExec", args |-> args]]
                         /\ last' = [Step("sent", c, "startExec", resp,
                                          Return(created.val,
                                                 createRequest
                                                 \o Issued(client, "startExec", args)),
                                          NotATool, 0)
                                        EXCEPT !.args = args]
           ELSE LET started == startExec(client, clients[c].pending.args.id, resp)
                IN  ExecFinished(c, clients[c].pending.args, resp,
                                 [started EXCEPT !.requests = createRequest \o @])

NextExec ==
    \E c \in DOMAIN clients :
        \/ \E request \in ExecRequests : McpPost(c, request)
        \/ ExecInvoke(c)
        \/ \E resp \in ExecResponses : ExecUpstream(c, resp)
        \/ Deliver(c)

SpecExec == Init /\ [][NextExec]_vars

(***************************************************************************)
(* C29: the docker_exec tool issues its two upstream steps strictly in      *)
(* order: the exec instance is started only after its creation succeeded    *)
(* and with the id that creation returned; if creation fails, no start      *)
(* request is issued and the failure envelope is returned; at most one      *)
(* create and one start request are issued per invocation                   *)
(***************************************************************************)
IsCreateRequest(request) ==
    request.method = "POST" /\ request.endpoint = <<"/containers/", "c1", "/exec">>
IsStartRequest(request) ==
    /\ request.method = "POST" /\ Len(request.endpoint) = 3
    /\ request.endpoint[1] = "/exec/" /\ request.endpoint[3] = "/start"

CreationSucceeded(resp) ==
    /\ resp.net = "ok" /\ resp.status >= 200 /\ resp.status <= 299
    /\ resp.status # 204
    /\ ~(resp.ctype = "json" /\ resp.body.json.t \in {"invalid", "null"})

C29_ExecStepsInOrder ==
    \A c \in DOMAIN clients :
        LET requests == last.out.requests
        IN  /\ (last.call = c /\ last.op \in {"createExec", "startExec", "docker_exec"})
                 => /\ Len(requests) <= 2
                    /\ requests # <<>> => IsCreateRequest(requests[1])
                    /\ Len(requests) = 2 => IsStartRequest(requests[2])
            \* the start request has just been issued
            /\ (last.call = c /\ last.layer = "sent" /\ last.op = "startExec")
                 => /\ CreationSucceeded(last.resp)
                    /\ Len(requests) = 2
                    /\ (last.resp.ctype = "json" /\ last.resp.body.json.id # "")
                         => requests[2].endpoint[2] = last.resp.body.json.id
            \* the handler returned at its first step
            /\ (last.call = c /\ last.layer = "tool" /\ last.op = "docker_exec"
                /\ last.args.stage = "create")
                 => /\ ~CreationSucceeded(last.resp)
                    /\ Len(requests) = 1
                    /\ last.out.threw
                    /\ ~last.tool.threw
                    /\ last.tool.response = formatError(last.out.err)
                    /\ last.tool.response.isError
            \* the handler returned at its second step
            /\ (last.call = c /\ last.layer = "tool" /\ last.op = "docker_exec"
                /\ last.args.stage = "start")
                 => /\ Len(requests) = 2
                    /\ ~last.tool.threw
                    /\ last.out.threw <=> last.tool.response.isError

\* the create request was answered with the id exec2, the start request
\* named exec2 and the handler returned the output
C29_Witness ==
    /\ last.layer = "tool" /\ last.op = "docker_exec" /\ last.args.stage = "start"
    /\ ~last.out.threw
    /\ Len(last.out.requests) = 2
    /\ last.out.requests[2].endpoint = <<"/exec/", "exec2", "/start">>

\* the create request was answered 404: one request, a failure envelope
C29_WitnessCreateFailed ==
    /\ last.layer = "tool" /\ last.op = "docker_exec" /\ last.args.stage = "create"
    /\ last.resp.status = 404
    /\ Len(last.out.requests) = 1 /\ last.tool.response.isError

(***************************************************************************)
(* client.ts testConnection and the docker_test_connection tool            *)
(***************************************************************************)
\* { connected, message }
ConnectionStatus(connected, message) ==
    [t |-> "connection", raw |-> "", json |-> JInvalid, page |-> NoPage,
     connected |-> connected, message |-> message]

\* a connection test without its catch clause
testConnection_uncaught(client, resp) ==
    LET pinged == ping(client, resp)
    IN  IF pinged.threw THEN pinged
        ELSE Return(ConnectionStatus(TRUE, <<"Successfully connected to Docker daemon">>),
                    pinged.requests)

\* try { await this.ping(); ... } catch (error) { ... }
testConnection(client, resp) ==
    LET pinged == ping(client, resp)
    IN  IF pinged.threw
        THEN Return(ConnectionStatus(FALSE, IF pinged.err.isError THEN pinged.err.message
                                            ELSE <<"Connection failed">>),
                    pinged.requests)
        ELSE Return(ConnectionStatus(TRUE, <<"Successfully connected to Docker daemon">>),
                    pinged.requests)

\* the handler of docker_test_connection: JSON.stringify(result, null, 2), or
\* the text of its own catch clause
testConnectionHandler(out) ==
    IF out.threw
    THEN Responded(ToolResponse(<<"Connection failed: ">>
                                \o (IF out.err.isError THEN out.err.message
                                    ELSE <<"Unknown error">>), TRUE))
    ELSE Responded(ToolResponse([connected |-> out.val.connected,
                                 message |-> out.val.message], FALSE))

ConnRequests ==
    {[NoRequest EXCEPT !.hubToken = H("tokA")],
     [NoRequest EXCEPT !.hubUsername = H("u"), !.hubPassword = H("p")],
     [NoRequest EXCEPT !.host = H(<<>>), !.hubToken = H("tokA")],
     NoRequest}
    \cup {[NoRequest EXCEPT !.host = H(host), !.hubToken = token] :
              host \in ExecHosts, token \in {NoHeader, H("tokA")}}

ConnFinished(c, resp) ==
    LET out == testConnection(clients[c].client, resp)
    IN  /\ last' = Step("tool", c, "testConnection", resp, out, testConnectionHandler(out), 0)
        /\ clients' = [clients EXCEPT
                         ![c].pending = [phase |-> "done", layer |-> "tool",
                                         op |-> "testConnection", args |-> NoArgs]]

\* docker_test_connection is invoked: without an engine host the test ends
\* before any HTTP call, otherwise the ping request is issued
ConnInvoke(c) ==
    /\ clients[c].state = "session"
    /\ clients[c].pending = NoPending
    /\ "docker_test_connection" \in clients[c].tools
    /\ LET issued == testConnection(clients[c].client, NoResponse).requests
       IN  IF issued = <<>>
           THEN ConnFinished(c, NoResponse)
           ELSE /\ clients' = [clients EXCEPT
                                 ![c].pending = [phase |-> "waiting", layer |-> "tool",
                                                 op |-> "testConnection", args |-> NoArgs]]
                /\ last' = Step("sent", c, "testConnection", NoResponse,
                                Return(Undefined, issued), NotATool, 0)

\* the upstream answers the ping
ConnUpstream(c, resp) ==
    /\ clients[c].pending.phase = "waiting"
    /\ clients[c].pending.op = "testConnection"
    /\ ConnFinished(c, resp)

NextConn ==
    \E c \in DOMAIN clients :
        \/ \E request \in ConnRequests : McpPost(c, request)
        \/ ConnInvoke(c)
        \/ \E resp \in EngineResponses : ConnUpstream(c, resp)
        \/ Deliver(c)

SpecConn == Init /\ [][NextConn]_vars

(***************************************************************************)
(* C30: the connection test never raises: it reports connected = true       *)
(* exactly when the engine ping succeeded, and otherwise connected = false  *)
(* with the failure message, including when no engine host is configured,   *)
(* in which case no HTTP request is issued; the docker_test_connection tool *)
(* is registered in every session                                           *)
(***************************************************************************)
\* the ping was answered 2xx and its body, if it has one, could be read
PingSucceeded(resp) ==
    /\ resp.net \in {"ok", "bodyError"}
    /\ ok(resp.status)
    /\ \/ resp.status = 204
       \/ /\ resp.net = "ok"
          /\ resp.ctype = "json" => resp.body.json.t # "invalid"

HostNotConfigured == <<"Docker host not configured. Provide X-Docker-Host header.">>

C30_ConnectionTest ==
    /\ \A c \in DOMAIN clients :
           clients[c].state = "session" => "docker_test_connection" \in clients[c].tools
    /\ (last.layer = "tool" /\ last.op = "testConnection")
         => LET client == clients[last.call].client
                status == last.out.val
            IN  /\ ~last.out.threw
                /\ ~last.tool.threw
                /\ ~last.tool.response.isError
                /\ last.tool.response.content[1].text
                     = [connected |-> status.connected, message |-> status.message]
                /\ status.connected
                     <=> (client.dockerBaseUrl # <<>> /\ PingSucceeded(last.resp))
                /\ status.connected
                     => status.message = <<"Successfully connected to Docker daemon">>
                /\ ~status.connected
                     => /\ status.message # <<>>
                        /\ status.message = ping(client, last.resp).err.message
                /\ client.dockerBaseUrl = <<>>
                     => /\ ~status.connected
                        /\ status.message = HostNotConfigured
                        /\ last.out.requests = <<>>
                /\ client.dockerBaseUrl # <<>> => Len(last.out.requests) = 1

\* a session without an engine host ran the connection test: no request,
\* connected = false with the message of the missing host
C30_Witness ==
    /\ last.layer = "tool" /\ last.op = "testConnection"
    /\ clients[last.call].client.dockerBaseUrl = <<>>
    /\ last.out.requests = <<>>
    /\ ~last.out.val.connected
    /\ last.out.val.message = HostNotConfigured

\* the ping was answered and the test reported connected = true
C30_WitnessConnected ==
    /\ last.layer = "tool" /\ last.op = "testConnection"
    /\ last.resp.status = 200 /\ last.out.val.connected

\* the ping failed upstream and the test reported connected = false
C30_WitnessFailed ==
    /\ last.layer = "tool" /\ last.op = "testConnection"
    /\ last.resp.net = "fetchError" /\ ~last.out.val.connected
    /\ Len(last.out.requests) = 1

====
